---- MODULE Spec2Model ----
(***************************************************************************)
(* Lead ingestion: processLeads (src/src/csvParser.ts) drives, for every   *)
(* record of a batch, validateLead (src/src/validator.ts) and the three    *)
(* client operations lookupLead / createLead / updateLead, each wrapped in *)
(* withRetry (src/src/apiClient.ts).                                       *)
(*                                                                         *)
(* Strings are sequences of one-character strings, so that trimming,       *)
(* lower-casing, whitespace collapsing and the e-mail pattern are computed *)
(* as the code computes them.  Messages are sequences of string fragments. *)
(***************************************************************************)
EXTENDS Integers, Sequences, FiniteSets, TLC

\* ------------------------------------------------------------------ bounds
\* Longest batch handed to processLeads.
MaxBatch == 2

\* Longest array handed to detectDuplicateEmails.
MaxLeads == 4

\* How often a function is called again on the same arguments.
MaxCalls == 2
MaxInFlight == 2

\* ------------------------------------------------------- string primitives
\* The characters matched by \s that occur in the modelled inputs.
Whitespace == {" ", "\t"}

\* String.prototype.toLowerCase, per character.
LowerOf ==
  [c \in {"A", "J", "K", "L", "N", "O", "T", "W", "I"} |->
     CASE c = "A" -> "a" [] c = "J" -> "j" [] c = "K" -> "k"
       [] c = "L" -> "l" [] c = "N" -> "n" [] c = "O" -> "o"
       [] c = "T" -> "t" [] c = "W" -> "w" [] c = "I" -> "i"]

toLowerCase(s) ==
  [i \in 1..Len(s) |-> IF s[i] \in DOMAIN LowerOf THEN LowerOf[s[i]] ELSE s[i]]

RECURSIVE trimStart(_)
trimStart(s) ==
  IF s # <<>> /\ Head(s) \in Whitespace THEN trimStart(Tail(s)) ELSE s

RECURSIVE trimEnd(_)
trimEnd(s) ==
  IF s # <<>> /\ s[Len(s)] \in Whitespace
  THEN trimEnd(SubSeq(s, 1, Len(s) - 1))
  ELSE s

\* String.prototype.trim
trim(s) == trimEnd(trimStart(s))

\* s.replace(/\s+/g, " "): every maximal whitespace run becomes one space.
RECURSIVE collapseWhitespace(_)
collapseWhitespace(s) ==
  IF s = <<>> THEN <<>>
  ELSE IF Head(s) \in Whitespace
       THEN <<" ">> \o collapseWhitespace(trimStart(Tail(s)))
       ELSE <<Head(s)>> \o collapseWhitespace(Tail(s))

\* Array.prototype.join
RECURSIVE join(_, _)
join(parts, sep) ==
  IF parts = <<>> THEN <<>>
  ELSE IF Len(parts) = 1 THEN <<parts[1]>>
  ELSE <<parts[1], sep>> \o join(Tail(parts), sep)

\* --------------------------------------------------------------- validator
VALID_SOURCES ==
  { <<"L","i","n","k","e","d","I","n">>,
    <<"W","e","b","i","n","a","r">>,
    <<"C","o","n","f","e","r","e","n","c","e">>,
    <<"R","e","f","e","r","r","a","l">>,
    <<"T","w","i","t","t","e","r">>,
    <<"W","e","b","s","i","t","e">> }

\* The pattern applied to the trimmed string.
EMAIL_REGEX_test_trimmed(s) ==
  LET t == trim(s)
  IN \E p \in 1..Len(t), q \in 1..Len(t) :
        /\ t[p] = "@"
        /\ t[q] = "."
        /\ p > 1
        /\ q > p + 1
        /\ q < Len(t)
        /\ \A k \in (1..Len(t)) \ {p} : t[k] \notin (Whitespace \cup {"@"})

\* EMAIL_REGEX = /^[^\s@]+@[^\s@]+\.[^\s@]+$/
EMAIL_REGEX_test(s) ==
  \E p \in 1..Len(s), q \in 1..Len(s) :
     /\ s[p] = "@"
     /\ s[q] = "."
     /\ p > 1
     /\ q > p + 1
     /\ q < Len(s)
     /\ \A k \in (1..Len(s)) \ {p} : s[k] \notin (Whitespace \cup {"@"})

normalizeCompany(company) == collapseWhitespace(trim(company))

MsgName    == "Name is required"
MsgEmail   == "Invalid email format"
MsgCompany == "Company is required"
MsgSourceRequired == "Source is required"
MsgSourceInvalid  == "Invalid source"

\* validateLead as defined last in validator.ts (the definition its tests
\* expect: rules in the order name, email, company, source).
\* The four rules of validateLead, each as "the rule is violated".
nameViolated(lead)    == lead.name = <<>> \/ trim(lead.name) = <<>>
emailViolated(lead)   == lead.email = <<>> \/ ~EMAIL_REGEX_test(lead.email)
companyViolated(lead) == normalizeCompany(lead.company) = <<>>
\* The source rule testing for the empty string only.
sourceMissing_noTrim(lead) == lead.source = <<>>

sourceMissing(lead)   == lead.source = <<>> \/ trim(lead.source) = <<>>
sourceViolated(lead)  == sourceMissing(lead) \/ lead.source \notin VALID_SOURCES

\* validateLead with the allow-list test outside the else branch.
validateLead_bothSourceMessages(lead) ==
  LET e1 == IF nameViolated(lead) THEN <<MsgName>> ELSE <<>>
      e2 == IF emailViolated(lead) THEN <<MsgEmail>> ELSE <<>>
      e3 == IF companyViolated(lead) THEN <<MsgCompany>> ELSE <<>>
      e4 == IF sourceMissing(lead) THEN <<MsgSourceRequired>> ELSE <<>>
      e5 == IF lead.source \notin VALID_SOURCES THEN <<MsgSourceInvalid>>
            ELSE <<>>
      errors == e1 \o e2 \o e3 \o e4 \o e5
  IN [isValid |-> (Len(errors) = 0), errors |-> errors]

\* validateLead stopping at the first violated rule.
validateLead_failFast(lead) ==
  LET errors == IF nameViolated(lead) THEN <<MsgName>>
                ELSE IF emailViolated(lead) THEN <<MsgEmail>>
                ELSE IF companyViolated(lead) THEN <<MsgCompany>>
                ELSE IF sourceMissing(lead) THEN <<MsgSourceRequired>>
                ELSE IF lead.source \notin VALID_SOURCES THEN <<MsgSourceInvalid>>
                ELSE <<>>
  IN [isValid |-> (Len(errors) = 0), errors |-> errors]

validateLead(lead) ==
  LET e1 == IF nameViolated(lead) THEN <<MsgName>> ELSE <<>>
      e2 == IF emailViolated(lead) THEN <<MsgEmail>> ELSE <<>>
      e3 == IF companyViolated(lead) THEN <<MsgCompany>> ELSE <<>>
      e4 == IF sourceMissing(lead) THEN <<MsgSourceRequired>>
            ELSE IF lead.source \notin VALID_SOURCES THEN <<MsgSourceInvalid>>
            ELSE <<>>
      errors == e1 \o e2 \o e3 \o e4
  IN [isValid |-> (Len(errors) = 0), errors |-> errors]

\* validateLead as defined first in validator.ts: the rules in the order
\* name, company, email, source, the allow-list message listing the values,
\* and the normalized lead added to a valid verdict.
MsgSourceAllowed == "Source must be one of: LinkedIn, Webinar, Website, Conference, Referral, Twitter"

isEmpty(value) == value = <<>> \/ trim(value) = <<>>

validateLeadEarlier(lead) ==
  LET e1 == IF isEmpty(lead.name) THEN <<MsgName>> ELSE <<>>
      e2 == IF isEmpty(lead.company) THEN <<MsgCompany>> ELSE <<>>
      e3 == IF lead.email = <<>> \/ ~EMAIL_REGEX_test(lead.email)
            THEN <<MsgEmail>> ELSE <<>>
      e4 == IF isEmpty(lead.source) THEN <<MsgSourceRequired>>
            ELSE IF lead.source \notin VALID_SOURCES THEN <<MsgSourceAllowed>>
            ELSE <<>>
      errors == e1 \o e2 \o e3 \o e4
      isValid == Len(errors) = 0
  IN IF isValid
     THEN [isValid |-> TRUE, errors |-> errors,
           normalizedLead |->
             [lead EXCEPT !.company = normalizeCompany(lead.company)]]
     ELSE [isValid |-> FALSE, errors |-> errors]

\* -------------------------------------------------------------- JS values
\* null / undefined
Null == [jsnull |-> TRUE]

\* A settled promise or a finished call: a value, or a thrown error.
Ok(v)    == [ok |-> TRUE, value |-> v]
Throw(e) == [ok |-> FALSE, error |-> e]

\* Error objects carry what the code reads from them: isAxiosError,
\* response?.status (0 when there is no response), code ("" when
\* undefined) and message.
MkError(ax, st, cd, msg) ==
  [isAxiosError |-> ax, status |-> st, code |-> cd, message |-> msg]

NoError == MkError(FALSE, 0, "", <<>>)

\* -------------------------------------------------------------- apiClient
MAX_RETRIES == 3
RETRYABLE_STATUS_CODES == {429, 500, 502, 503, 504}
RETRYABLE_ERROR_CODES  == {"ECONNABORTED", "ETIMEDOUT"}

\* isRetryable taking every 5xx status for transient.
isRetryable_every5xx(err) ==
  \/ (err.code # "" /\ err.code \in RETRYABLE_ERROR_CODES)
  \/ (err.status # 0 /\ (err.status = 429 \/ err.status >= 500))

\* isRetryable taking every error without a response for a network error.
isRetryable_noResponse(err) ==
  \/ (err.code # "" /\ err.code \in RETRYABLE_ERROR_CODES)
  \/ (err.status # 0 /\ err.status \in RETRYABLE_STATUS_CODES)
  \/ err.status = 0

isRetryable(err) ==
  \/ (err.code # "" /\ err.code \in RETRYABLE_ERROR_CODES)
  \/ (err.status # 0 /\ err.status \in RETRYABLE_STATUS_CODES)

MalformedError ==
  MkError(FALSE, 0, "",
          <<"Malformed API response: missing expected fields (name, email)">>)

\* The aggregate error without the cause.
MaxRetriesError_noCause(lastError) ==
  MkError(FALSE, 0, "",
          <<"Max retries exhausted after ", ToString(MAX_RETRIES),
            " attempts. Last error: ">>)

\* The error thrown once the retry loop is left by break.
MaxRetriesError(lastError) ==
  MkError(FALSE, 0, "",
          <<"Max retries exhausted after ", ToString(MAX_RETRIES),
            " attempts. Last error: ">> \o lastError.message)

\* `"found" in data` with data === null
InOperatorTypeError ==
  MkError(FALSE, 0, "",
          <<"Cannot use 'in' operator to search for 'found' in null">>)

hasNestedLead(data) == "lead" \in DOMAIN data /\ data.lead # Null

extractLeadFromResponse(data) ==
  IF data = Null THEN Throw(MalformedError)
  ELSE LET leadData == IF hasNestedLead(data) THEN data.lead ELSE data
       IN IF "name" \notin DOMAIN leadData \/ "email" \notin DOMAIN leadData
          THEN Throw(MalformedError)
          ELSE Ok([name    |-> leadData.name,
                   email   |-> leadData.email,
                   company |-> IF "company" \in DOMAIN leadData
                               THEN leadData.company ELSE <<>>,
                   source  |-> IF "source" \in DOMAIN leadData
                               THEN leadData.source ELSE <<>>])

validateLeadResponse(data) ==
  IF data = Null THEN Throw(MalformedError)
  ELSE IF hasNestedLead(data) THEN extractLeadFromResponse(data)
  ELSE IF "name" \notin DOMAIN data \/ "email" \notin DOMAIN data
       THEN Throw(MalformedError)
  ELSE Ok(data)

\* lookupLead without the 404 branch of its catch block.
lookupLeadFn_no404(resp) ==
  IF resp.resolved
  THEN IF resp.data = Null THEN Throw(InOperatorTypeError)
       ELSE IF "found" \in DOMAIN resp.data /\ resp.data.found = FALSE
            THEN Ok(Null)
       ELSE validateLeadResponse(resp.data)
  ELSE Throw(resp.error)

\* The callbacks handed to withRetry, applied to the outcome of the axios
\* request: resp.resolved with resp.data, or rejected with resp.error.
lookupLeadFn(resp) ==
  IF resp.resolved
  THEN IF resp.data = Null THEN Throw(InOperatorTypeError)
       ELSE IF "found" \in DOMAIN resp.data /\ resp.data.found = FALSE
            THEN Ok(Null)
       ELSE validateLeadResponse(resp.data)
  ELSE IF resp.error.isAxiosError /\ resp.error.status = 404
       THEN Ok(Null)
       ELSE Throw(resp.error)

createLeadFn(resp) ==
  IF resp.resolved THEN validateLeadResponse(resp.data) ELSE Throw(resp.error)

updateLeadFn(resp) ==
  IF resp.resolved THEN validateLeadResponse(resp.data) ELSE Throw(resp.error)

fnOf(operation, resp) ==
  CASE operation = "lookup" -> lookupLeadFn(resp)
    [] operation = "create" -> createLeadFn(resp)
    [] operation = "update" -> updateLeadFn(resp)

\* Math.pow(2, n)
RECURSIVE pow2(_)
pow2(n) == IF n = 0 THEN 1 ELSE 2 * pow2(n - 1)

\* The delay doubling from the first retry on.
backoffDelay_fromTwo(base, attempt) == base * pow2(attempt)

backoffDelay(base, attempt) == base * pow2(attempt - 1)

\* ----------------------------------------------------------- leadProcessor
\* leadsMatch comparing the company as typed.
leadsMatch_rawCompany(incoming, existing) ==
  /\ incoming.name = existing.name
  /\ toLowerCase(incoming.email) = toLowerCase(existing.email)
  /\ incoming.company = existing.company
  /\ incoming.source = existing.source

\* leadsMatch leaving the company out.
leadsMatch_ignoresCompany(incoming, existing) ==
  /\ incoming.name = existing.name
  /\ toLowerCase(incoming.email) = toLowerCase(existing.email)
  /\ incoming.source = existing.source

\* leadsMatch comparing trimmed names.
leadsMatch_trimmedName(incoming, existing) ==
  /\ trim(incoming.name) = trim(existing.name)
  /\ toLowerCase(incoming.email) = toLowerCase(existing.email)
  /\ normalizeCompany(incoming.company) = normalizeCompany(existing.company)
  /\ incoming.source = existing.source

leadsMatch(incoming, existing) ==
  /\ incoming.name = existing.name
  /\ toLowerCase(incoming.email) = toLowerCase(existing.email)
  /\ normalizeCompany(incoming.company) = normalizeCompany(existing.company)
  /\ incoming.source = existing.source

\* The duplicate key without lower-casing.
emailKey_raw(lead) == lead.email

emailKey(lead) == toLowerCase(lead.email)

countAction(rs, a) == Cardinality({i \in 1..Len(rs) : rs[i].action = a})

\* The summary with total taken as the number of records that led to a
\* change or a skip.
summaryOf_totalWithoutErrors(rs) ==
  [total   |-> Len(rs) - countAction(rs, "error"),
   created |-> countAction(rs, "created"),
   updated |-> countAction(rs, "updated"),
   skipped |-> countAction(rs, "skipped"),
   errors  |-> countAction(rs, "error")]

summaryOf(rs) ==
  [total   |-> Len(rs),
   created |-> countAction(rs, "created"),
   updated |-> countAction(rs, "updated"),
   skipped |-> countAction(rs, "skipped"),
   errors  |-> countAction(rs, "error")]

\* ------------------------------------------------------------------ inputs
Jane      == <<"J">>
Kate      == <<"K">>
Blank     == <<" ">>
EmailA    == <<"a", "@", "x", ".", "c">>
EmailAUp  == <<"A", "@", "x", ".", "c">>
EmailB    == <<"b", "@", "x", ".", "c">>
BadEmail  == <<"b", "a", "d">>
NewCorp   == <<"N">>
NewCorpSp == <<" ", "N">>
OldCorp   == <<"O">>
LinkedIn  == <<"L","i","n","k","e","d","I","n">>
Webinar   == <<"W","e","b","i","n","a","r">>
TikTok    == <<"T","i","k","T","o","k">>

MkLead(n, e, c, s) == [name |-> n, email |-> e, company |-> c, source |-> s]

\* Leads a batch is drawn from: valid ones, two that share an e-mail up to
\* letter case, one violating every rule, one violating only the name rule
\* while carrying the e-mail of a valid lead.
LeadPool ==
  { MkLead(Jane, EmailA, NewCorp, LinkedIn),
    MkLead(Kate, EmailAUp, NewCorpSp, LinkedIn),
    MkLead(Jane, EmailB, NewCorp, Webinar),
    MkLead(<<>>, BadEmail, Blank, TikTok),
    MkLead(Blank, EmailA, NewCorp, LinkedIn) }

\* Leads the remote may hold; it stores e-mails lower-cased.
RemoteLeads ==
  { MkLead(Jane, EmailA, NewCorp, LinkedIn),
    MkLead(Kate, EmailA, NewCorp, LinkedIn),
    MkLead(Jane, EmailB, OldCorp, Webinar) }

Batches == UNION { [1..n -> LeadPool] : n \in 0..MaxBatch }

\* The remote's stored form of a lead: the four fields plus an id.
withId(lead) == [id |-> "1"] @@ lead

\* Rejections of an axios request: a response with an error status, or a
\* timeout without response.
statusError(st) ==
  MkError(TRUE, st, IF st >= 500 THEN "ERR_BAD_RESPONSE" ELSE "ERR_BAD_REQUEST",
          <<"Request failed with status code ", ToString(st)>>)

timeoutError(cd) == MkError(TRUE, 0, cd, <<"timeout: ", cd>>)

AxiosErrors ==
  { statusError(st) : st \in {400, 404, 409, 429, 500} }
    \cup { timeoutError(cd) : cd \in {"ECONNABORTED"} }

Resolved(d) == [resolved |-> TRUE, data |-> d]
Rejected(e) == [resolved |-> FALSE, error |-> e]

\* The stored leads a lookup for lead l can be answered with: the remote
\* looks the lower-cased e-mail up.
storedFor(l) == { r \in RemoteLeads : r.email = toLowerCase(l.email) }

\* Every outcome of the axios request of an operation for lead l.
Responses(operation, l) ==
  { Rejected(e) : e \in AxiosErrors }
    \cup { Resolved(Null), Resolved([foo |-> "bar"]) }
    \cup (IF operation = "lookup"
          THEN { Resolved([found |-> FALSE]),
                 Resolved([found |-> TRUE, lead |-> [email |-> l.email]]) }
                 \cup { Resolved([found |-> TRUE, lead |-> withId(r)]) :
                          r \in storedFor(l) }
                 \cup { Resolved(r) : r \in storedFor(l) }
          ELSE { Resolved([success |-> TRUE, lead |-> withId(l)]),
                 Resolved(l) })

\* ------------------------------------------------------------------- state
VARIABLES
  leads,        \* the batch passed to processLeads
  BASE_DELAY,   \* 0 when NODE_ENV is "test", 1000 otherwise
  idx,          \* position of the for-of loop in leads (1-based)
  pc,           \* "main", "loop", "request", "backoff", "settled", "done",
                \* "exited"
  seenEmails,   \* the Set of processLeads
  results,      \* the results array
  summary,      \* the summary, once computed
  events,       \* calls and returns of the client operations, in order
  operation,    \* client operation in progress: lookup / create / update
  payload,      \* argument of the client operation in progress
  attempt,      \* withRetry: loop variable
  requests,     \* withRetry: axios requests issued by this operation
  failed,       \* withRetry: retryable failures caught by this operation
  lastError,    \* withRetry: lastError
  fnResult,     \* withRetry: what the latest fn() returned or threw
  waits,        \* withRetry: the setTimeout delays awaited by this operation
  settled,      \* outcome of the client operation, once it has one
  classified,   \* an error handed to isRetryable, and the verdict on it
  response,     \* withRetry: outcome of the latest axios request
  file,         \* main: the CSV file named by --file
  exitCode,     \* main: argument of process.exit, -1 while running
  call,         \* leadsMatch / validateLead / detectDuplicateEmails called
                \* on their own: the function, its arguments, its position
  emailIndices, \* detectDuplicateEmails: the Map it fills
  outputs,      \* what the calls made so far returned, in order
  store,        \* server: the Map of stored leads, by lower-cased e-mail
  nextId,       \* server: nextId
  run           \* which run of processLeads against the server this is

vars == << leads, BASE_DELAY, idx, pc, seenEmails, results, summary, events,
           operation, payload, attempt, requests, failed, lastError, fnResult,
           waits, settled, classified, response, file, exitCode,
           call, emailIndices, outputs, store, nextId, run >>

NoSummary == [total |-> -1]
NotSettled == [pending |-> TRUE]
Unclassified(e) == [err |-> e, verdict |-> "pending"]
NoResponse == [pending |-> TRUE]
NoFile == [status |-> "none"]
NoCall == [fn |-> "none"]

Init ==
  /\ leads \in Batches
  /\ BASE_DELAY \in {0, 1000}
  /\ idx = 1
  /\ pc = "loop"
  /\ seenEmails = {}
  /\ results = <<>>
  /\ summary = NoSummary
  /\ events = <<>>
  /\ operation = "none"
  /\ payload = Null
  /\ attempt = 0
  /\ requests = 0
  /\ failed = 0
  /\ lastError = NoError
  /\ fnResult = NotSettled
  /\ waits = <<>>
  /\ settled = NotSettled
  /\ classified = Unclassified(NoError)
  /\ response = NoResponse
  /\ file = NoFile
  /\ exitCode = -1
  /\ call = NoCall
  /\ emailIndices = <<>>
  /\ outputs = <<>>
  /\ store = <<>>
  /\ nextId = 1
  /\ run = 1

\* ----------------------------------------------------------------- actions
\* withRetry entered for a client operation: attempt 1 issues its request.
\* A client operation started without being awaited: processLeads goes on
\* with its loop while the request is in flight.
callClient_noAwait(op, arg, evs) ==
  /\ operation' = op
  /\ payload' = arg
  /\ attempt' = 1
  /\ requests' = 1
  /\ failed' = 0
  /\ lastError' = NoError
  /\ fnResult' = NotSettled
  /\ response' = NoResponse
  /\ waits' = <<>>
  /\ settled' = NotSettled
  /\ events' = Append(evs, [rec |-> idx, op |-> op, ev |-> "call"])
  /\ pc' = "loop"

callClient(op, arg, evs) ==
  /\ operation' = op
  /\ payload' = arg
  /\ attempt' = 1
  /\ requests' = 1
  /\ failed' = 0
  /\ lastError' = NoError
  /\ fnResult' = NotSettled
  /\ response' = NoResponse
  /\ waits' = <<>>
  /\ settled' = NotSettled
  /\ events' = Append(evs, [rec |-> idx, op |-> op, ev |-> "call"])
  /\ pc' = "request"

\* No client operation has been started.
clientIdleNow ==
  /\ operation = "none"
  /\ payload = Null
  /\ attempt = 0
  /\ requests = 0
  /\ failed = 0
  /\ lastError = NoError
  /\ fnResult = NotSettled
  /\ response = NoResponse
  /\ waits = <<>>
  /\ settled = NotSettled

\* No client operation in progress.
clientIdle ==
  /\ operation' = "none"
  /\ payload' = Null
  /\ attempt' = 0
  /\ requests' = 0
  /\ failed' = 0
  /\ lastError' = NoError
  /\ fnResult' = NotSettled
  /\ response' = NoResponse
  /\ waits' = <<>>
  /\ settled' = NotSettled

\* The client operation in progress has returned or thrown into processLeads.
returned ==
  Append(events, [rec |-> idx, op |-> operation, ev |-> "return",
                  res |-> settled])

\* results.push(r), an error outcome ending the loop.
pushResult_abortOnError(r) ==
  /\ results' = Append(results, r)
  /\ idx' = IF r.action = "error" THEN Len(leads) + 1 ELSE idx + 1
  /\ pc' = "loop"

\* results.push(r) with the lead's e-mail and company normalized first.
pushResult_normalized(r) ==
  /\ results' = Append(results,
                       [r EXCEPT !.lead.email = toLowerCase(trim(@)),
                                 !.lead.company = normalizeCompany(@)])
  /\ idx' = idx + 1
  /\ pc' = "loop"

\* results.push(r); the loop moves to the next lead.
pushResult(r) ==
  /\ results' = Append(results, r)
  /\ idx' = idx + 1
  /\ pc' = "loop"

\* The outcome pushed for a lead that fails validation, logged as
\* "Invalid lead, skipping" and recorded as skipped.
rejectedResult_skipped(lead, validation) ==
  [lead |-> lead, action |-> "skipped"]

\* The outcome pushed for a lead that fails validation.
rejectedResult(lead, validation) ==
  [lead |-> lead, action |-> "error", error |-> join(validation.errors, "; ")]

\* processLeads adding the e-mail to the Set before it validates the lead.
StartRecord_addBeforeValidate ==
  /\ pc = "loop"
  /\ idx <= Len(leads)
  /\ LET lead == leads[idx]
         validation == validateLead(lead)
     IN IF emailKey(lead) \in seenEmails
        THEN /\ pushResult([lead |-> lead, action |-> "skipped"])
             /\ UNCHANGED << seenEmails, events, operation, payload, attempt,
                             requests, failed, lastError, fnResult, waits,
                             settled, response >>
        ELSE IF ~validation.isValid
        THEN /\ seenEmails' = seenEmails \cup {emailKey(lead)}
             /\ pushResult(rejectedResult(lead, validation))
             /\ UNCHANGED << events, operation, payload, attempt,
                             requests, failed, lastError, fnResult, waits,
                             settled, response >>
        ELSE /\ seenEmails' = seenEmails \cup {emailKey(lead)}
             /\ callClient("lookup", lead.email, events)
             /\ UNCHANGED << results, idx >>
  /\ UNCHANGED << store, nextId, run, call, emailIndices, outputs, classified,
                  file, exitCode, leads, BASE_DELAY, summary >>

\* One iteration of the for-of loop up to its first await: validation, the
\* in-batch duplicate check, and the call of lookupLead.
StartRecord ==
  /\ pc = "loop"
  /\ idx <= Len(leads)
  /\ LET lead == leads[idx]
         validation == validateLead(lead)
     IN IF ~validation.isValid
        THEN /\ pushResult(rejectedResult(lead, validation))
             /\ UNCHANGED << seenEmails, events, operation, payload, attempt,
                             requests, failed, lastError, fnResult, waits,
                             settled, response >>
        ELSE IF emailKey(lead) \in seenEmails
        THEN /\ pushResult([lead |-> lead, action |-> "skipped"])
             /\ UNCHANGED << seenEmails, events, operation, payload, attempt,
                             requests, failed, lastError, fnResult, waits,
                             settled, response >>
        ELSE /\ seenEmails' = seenEmails \cup {emailKey(lead)}
             /\ callClient("lookup", lead.email, events)
             /\ UNCHANGED << results, idx >>
  /\ UNCHANGED << store, nextId, run, call, emailIndices, outputs, classified, file, exitCode, leads, BASE_DELAY, summary >>

\* The catch block of withRetry giving up one attempt early.
retryDecision_offByOne(err, att, base) ==
  IF ~isRetryable(err) THEN "throw"
  ELSE IF att >= MAX_RETRIES - 1 THEN "exhausted"
  ELSE IF backoffDelay(base, att) > 0 THEN "wait"
  ELSE "retry"

\* The catch block of withRetry allowing one attempt more.
retryDecision_oneMore(err, att, base) ==
  IF ~isRetryable(err) THEN "throw"
  ELSE IF att = MAX_RETRIES + 1 THEN "exhausted"
  ELSE IF backoffDelay(base, att) > 0 THEN "wait"
  ELSE "retry"

\* The catch block of withRetry testing for the last attempt first.
retryDecision_lastAttemptFirst(err, att, base) ==
  IF att = MAX_RETRIES THEN "exhausted"
  ELSE IF ~isRetryable(err) THEN "throw"
  ELSE IF backoffDelay(base, att) > 0 THEN "wait"
  ELSE "retry"

\* The catch block of withRetry without the isRetryable test.
retryDecision_retriesAll(err, att, base) ==
  IF att = MAX_RETRIES THEN "exhausted"
  ELSE IF backoffDelay(base, att) > 0 THEN "wait"
  ELSE "retry"

\* What the catch block of withRetry does with the error of this attempt.
retryDecision(err, att, base) ==
  IF ~isRetryable(err) THEN "throw"
  ELSE IF att = MAX_RETRIES THEN "exhausted"
  ELSE IF backoffDelay(base, att) > 0 THEN "wait"
  ELSE "retry"

\* The outcome resp of the axios request in flight reaches fn(): it returns
\* or throws, and withRetry returns, rethrows, gives up, waits or starts the
\* next attempt.
receive(resp) ==
  LET r == fnOf(operation, resp)
      d == retryDecision(r.error, attempt, BASE_DELAY)
  IN /\ fnResult' = r
     /\ response' = resp
     /\ IF r.ok
        THEN /\ settled' = r
             /\ pc' = "settled"
             /\ UNCHANGED << attempt, requests, failed, lastError, waits >>
        ELSE /\ lastError' = r.error
             /\ failed' = IF isRetryable(r.error)
                          THEN failed + 1 ELSE failed
             /\ CASE d = "throw" ->
                       /\ settled' = Throw(r.error)
                       /\ pc' = "settled"
                       /\ UNCHANGED << attempt, requests, waits >>
                  [] d = "exhausted" ->
                       /\ settled' = Throw(MaxRetriesError(r.error))
                       /\ pc' = "settled"
                       /\ UNCHANGED << attempt, requests, waits >>
                  [] d = "wait" ->
                       /\ waits' = Append(waits,
                                          backoffDelay(BASE_DELAY, attempt))
                       /\ pc' = "backoff"
                       /\ UNCHANGED << attempt, requests, settled >>
                  [] d = "retry" ->
                       /\ attempt' = attempt + 1
                       /\ requests' = requests + 1
                       /\ pc' = "request"
                       /\ UNCHANGED << waits, settled >>

\* The axios request in flight completes with any outcome a remote can
\* produce.
Respond ==
  /\ pc = "request"
  /\ \E resp \in Responses(operation, leads[idx]) : receive(resp)
  /\ UNCHANGED << store, nextId, run, call, emailIndices, outputs, classified,
                  file, exitCode, leads, BASE_DELAY, idx, seenEmails, results,
                  summary, events, operation, payload >>

\* The setTimeout of the backoff fires: the next attempt issues its request.
Wake ==
  /\ pc = "backoff"
  /\ attempt' = attempt + 1
  /\ requests' = requests + 1
  /\ pc' = "request"
  /\ UNCHANGED << store, nextId, run, call, emailIndices, outputs, classified, file, exitCode, leads, BASE_DELAY, idx, seenEmails, results, summary, events,
                  operation, payload, failed, lastError, fnResult, waits,
                  settled, response >>

\* processLeads with the branches of `if (existing)` swapped.
afterLookup_swapped(lead, existing) ==
  IF existing = Null
  THEN "update"
  ELSE IF ~leadsMatch(lead, existing) THEN "create" ELSE "skipped"

\* What processLeads does once lookupLead has returned `existing`.
afterLookup(lead, existing) ==
  IF existing # Null
  THEN IF ~leadsMatch(lead, existing) THEN "update" ELSE "skipped"
  ELSE "create"

\* updateLead called with the lead lookup returned.
clientArgument_existing(d, lead, existing) ==
  IF d = "update" THEN existing ELSE lead

\* The argument of createLead(lead) and updateLead(lead).
clientArgument(d, lead, existing) == lead

\* The catch block of processLeads without the conflict branch.
catchResult_noConflict(lead, err) ==
  [lead |-> lead, action |-> "error", error |-> err.message]

\* The catch block of processLeads skipping on any response status.
catchResult_anyStatus(lead, err) ==
  IF err.status # 0
  THEN [lead |-> lead, action |-> "skipped"]
  ELSE [lead |-> lead, action |-> "error", error |-> err.message]

\* The catch block of processLeads.
catchResult(lead, err) ==
  IF err.status = 409
  THEN [lead |-> lead, action |-> "skipped"]
  ELSE [lead |-> lead, action |-> "error", error |-> err.message]

\* processLeads treating a failed lookup as "not found": it goes on to
\* createLead instead of recording the failure.
Continue_createAfterFailedLookup ==
  /\ pc = "settled"
  /\ LET lead == leads[idx]
     IN IF ~settled.ok /\ operation = "lookup"
        THEN /\ callClient("create", lead, returned)
             /\ UNCHANGED << results, idx >>
        ELSE IF ~settled.ok
        THEN /\ pushResult(catchResult(lead, settled.error))
             /\ clientIdle
             /\ events' = returned
        ELSE IF operation = "lookup"
        THEN LET d == afterLookup(lead, settled.value)
             IN IF d = "skipped"
                THEN /\ pushResult([lead |-> lead, action |-> "skipped"])
                     /\ clientIdle
                     /\ events' = returned
                ELSE /\ callClient(d, clientArgument(d, lead, settled.value),
                                   returned)
                     /\ UNCHANGED << results, idx >>
        ELSE /\ pushResult([lead |-> lead,
                            action |-> IF operation = "create"
                                       THEN "created" ELSE "updated"])
             /\ clientIdle
             /\ events' = returned
  /\ UNCHANGED << store, nextId, run, call, emailIndices, outputs, classified,
                  file, exitCode, leads, BASE_DELAY, seenEmails, summary >>

\* processLeads resumes after the await of a client operation.
Continue ==
  /\ pc = "settled"
  /\ LET lead == leads[idx]
     IN IF ~settled.ok
        THEN /\ pushResult(catchResult(lead, settled.error))
             /\ clientIdle
             /\ events' = returned
        ELSE IF operation = "lookup"
        THEN LET d == afterLookup(lead, settled.value)
             IN IF d = "skipped"
                THEN /\ pushResult([lead |-> lead, action |-> "skipped"])
                     /\ clientIdle
                     /\ events' = returned
                ELSE /\ callClient(d, clientArgument(d, lead, settled.value),
                                   returned)
                     /\ UNCHANGED << results, idx >>
        ELSE /\ pushResult([lead |-> lead,
                            action |-> IF operation = "create"
                                       THEN "created" ELSE "updated"])
             /\ clientIdle
             /\ events' = returned
  /\ UNCHANGED << store, nextId, run, call, emailIndices, outputs, classified, file, exitCode, leads, BASE_DELAY, seenEmails, summary >>

\* The loop is over: the summary is computed and processLeads returns.
Finish ==
  /\ pc = "loop"
  /\ idx > Len(leads)
  /\ summary' = summaryOf(results)
  /\ pc' = "done"
  /\ UNCHANGED << store, nextId, run, call, emailIndices, outputs, classified, file, exitCode, leads, BASE_DELAY, idx, seenEmails, results, events,
                  operation, payload, attempt, requests, failed, lastError,
                  fnResult, waits, settled, response >>

Next == StartRecord \/ Respond \/ Wake \/ Continue \/ Finish

Spec == Init /\ [][Next]_vars

\* processLeads run to its end: every pending request is settled with a
\* response or an error, every timer set by the backoff fires, and the
\* loop takes its next step.
SpecFair == Spec /\ WF_vars(Next)

\* ------------------------------------------------------ main and the CSV
\* A file is its read status ("ok", or the errno code of the failed read)
\* and its lines; a line is the sequence of its comma-separated fields, the
\* first line holding the header names.
REQUIRED_HEADERS == {"Name", "Email", "Company", "Source"}

MkFile(st, ls) == [status |-> st, lines |-> ls]

FatalError(msg) == MkError(FALSE, 0, "", msg)

\* fs.readFileSync failed: the error parseCSVFile throws for it.
readError(code) ==
  CASE code = "ENOENT" -> FatalError(<<"File not found: ", "path">>)
    [] code = "EACCES" -> FatalError(<<"Permission denied: ", "path">>)
    [] OTHER -> MkError(FALSE, 0, code, <<code>>)

\* skip_empty_lines: the data lines csv-parse turns into records.
RECURSIVE dataRows(_)
dataRows(ls) ==
  IF ls = <<>> THEN <<>>
  ELSE IF Head(ls) = <<>> THEN dataRows(Tail(ls))
  ELSE <<Head(ls)>> \o dataRows(Tail(ls))

\* csv-parse accepting records of any length (relax_column_count: true).
columnMismatch_relaxed(headers, rows) == FALSE

\* relax_column_count: false: a record whose field count differs from the
\* number of columns makes csv-parse throw.
columnMismatch(headers, rows) ==
  \E k \in 1..Len(rows) : Len(rows[k]) # Len(headers)

\* record[column] ?? "", trimmed
fieldOf(headers, row, column) ==
  LET k == CHOOSE j \in 1..Len(headers) : headers[j] = column
  IN IF k <= Len(row) THEN trim(row[k]) ELSE <<>>

parseCSVFile(f) ==
  IF f.status # "ok" THEN Throw(readError(f.status))
  ELSE IF f.lines = <<>> \/ f.lines[1] = <<>>
       THEN Throw(FatalError(<<"Invalid CSV: missing required headers">>))
  ELSE LET headers == f.lines[1]
           rows == dataRows(Tail(f.lines))
       IN IF \E required \in REQUIRED_HEADERS :
                \A j \in 1..Len(headers) : headers[j] # required
          THEN Throw(FatalError(<<"Invalid CSV: missing required headers.">>))
          ELSE IF columnMismatch(headers, rows)
          THEN Throw(FatalError(<<"Malformed CSV: column count mismatch.">>))
          ELSE Ok([k \in 1..Len(rows) |->
                     [name    |-> fieldOf(headers, rows[k], "Name"),
                      email   |-> fieldOf(headers, rows[k], "Email"),
                      company |-> fieldOf(headers, rows[k], "Company"),
                      source  |-> fieldOf(headers, rows[k], "Source")]])

\* main exiting 0 whatever the summary says.
exitCodeOf_zero(s) == 0

\* The exit code main chooses from the summary.
exitCodeOf(s) == IF s.errors > 0 THEN 1 ELSE 0

\* Data lines the files are made of: a valid lead, a valid lead with the
\* same e-mail in other letter case and a padded company, a lead violating
\* every rule.
RowPool ==
  { <<Jane, EmailA, NewCorp, LinkedIn>>,
    <<Kate, EmailAUp, NewCorpSp, LinkedIn>>,
    <<Blank, BadEmail, Blank, TikTok>> }

Header == <<"Name", "Email", "Company", "Source">>

WellFormedFiles ==
  { MkFile("ok", <<Header>> \o rows) :
      rows \in UNION { [1..n -> RowPool] : n \in 0..MaxBatch } }
    \cup { MkFile("ok", << <<"Email", "Name", "Company", "Source">>,
                           <<EmailB, Jane, OldCorp, Webinar>> >>),
           MkFile("ok", << Header, <<>>,
                           <<Jane, EmailB, NewCorp, Webinar>> >>) }

\* Files parseCSVFile rejects: unreadable, empty, a required header missing,
\* a line with too few or too many fields.
BrokenFiles ==
  { MkFile("ENOENT", <<>>), MkFile("EACCES", <<>>), MkFile("EISDIR", <<>>),
    MkFile("ok", <<>>),
    MkFile("ok", << <<"Name", "Email", "Company">>,
                    <<Jane, EmailA, NewCorp>> >>),
    MkFile("ok", << Header, <<Jane, EmailA, NewCorp, LinkedIn>>,
                    <<Jane, EmailB, NewCorp>> >>),
    MkFile("ok", << Header,
                    <<Jane, EmailA, NewCorp, LinkedIn, LinkedIn>> >>) }

Files == WellFormedFiles \cup BrokenFiles

InitMain ==
  /\ file \in Files
  /\ BASE_DELAY \in {0, 1000}
  /\ leads = <<>>
  /\ idx = 1
  /\ pc = "main"
  /\ seenEmails = {}
  /\ results = <<>>
  /\ summary = NoSummary
  /\ events = <<>>
  /\ operation = "none"
  /\ payload = Null
  /\ attempt = 0
  /\ requests = 0
  /\ failed = 0
  /\ lastError = NoError
  /\ fnResult = NotSettled
  /\ waits = <<>>
  /\ settled = NotSettled
  /\ classified = Unclassified(NoError)
  /\ response = NoResponse
  /\ exitCode = -1
  /\ call = NoCall
  /\ emailIndices = <<>>
  /\ outputs = <<>>
  /\ store = <<>>
  /\ nextId = 1
  /\ run = 1

\* main up to its call of processLeads: the file is parsed; a thrown error
\* is logged as fatal and the process exits with 1.
ParseFile ==
  /\ pc = "main"
  /\ LET r == parseCSVFile(file)
     IN IF r.ok
        THEN /\ leads' = r.value
             /\ pc' = "loop"
             /\ UNCHANGED exitCode
        ELSE /\ exitCode' = 1
             /\ pc' = "exited"
             /\ UNCHANGED leads
  /\ UNCHANGED << BASE_DELAY, idx, seenEmails, results, summary, events,
                  operation, payload, attempt, requests, failed, lastError,
                  fnResult, waits, settled, classified, response, file,
                  call, emailIndices, outputs, store, nextId, run >>

\* processLeads has returned into main: the summary decides the exit code.
Exit ==
  /\ pc = "done"
  /\ exitCode' = exitCodeOf(summary)
  /\ pc' = "exited"
  /\ UNCHANGED << leads, BASE_DELAY, idx, seenEmails, results, summary, events,
                  operation, payload, attempt, requests, failed, lastError,
                  fnResult, waits, settled, classified, response, file,
                  call, emailIndices, outputs, store, nextId, run >>

NextMain ==
  ParseFile \/ StartRecord \/ Respond \/ Wake \/ Continue \/ Finish \/ Exit

SpecMain == InitMain /\ [][NextMain]_vars

\* ------------------------------------------- functions called on their own
\* processLeads, main and the server are not running.
processVars ==
  << leads, BASE_DELAY, idx, pc, seenEmails, results, summary, events,
     operation, payload, attempt, requests, failed, lastError, fnResult,
     waits, settled, classified, response, file, exitCode,
     store, nextId, run >>

clientVars ==
  << leads, BASE_DELAY, idx, pc, seenEmails, results, summary, events,
     operation, payload, attempt, requests, failed, lastError, fnResult,
     waits, settled, classified, response, file, exitCode >>

NoProcess ==
  /\ leads = <<>>
  /\ BASE_DELAY = 0
  /\ idx = 1
  /\ pc = "done"
  /\ seenEmails = {}
  /\ results = <<>>
  /\ summary = NoSummary
  /\ events = <<>>
  /\ operation = "none"
  /\ payload = Null
  /\ attempt = 0
  /\ requests = 0
  /\ failed = 0
  /\ lastError = NoError
  /\ fnResult = NotSettled
  /\ waits = <<>>
  /\ settled = NotSettled
  /\ classified = Unclassified(NoError)
  /\ response = NoResponse
  /\ file = NoFile
  /\ exitCode = -1

NoServer ==
  /\ store = <<>>
  /\ nextId = 1
  /\ run = 1

\* --------------------------------------------------- leadsMatch on its own
\* Field values that differ by letter case, by padding, by the kind and
\* number of whitespace characters between words, or altogether.
MatchNames     == { Jane, Kate, <<"J", " ">>, <<"j">> }
MatchEmails    == { EmailA, EmailAUp, EmailB }
MatchCompanies ==
  { NewCorp, NewCorpSp, OldCorp, <<"N", "C">>, <<"N", " ", "C">>,
    <<"N", " ", " ", "C", " ">>, <<"N", "\t", "C">> }
MatchSources   == { LinkedIn, Webinar, toLowerCase(LinkedIn) }

IncomingLeads ==
  { MkLead(n, e, c, s) : n \in MatchNames, e \in MatchEmails,
                         c \in MatchCompanies, s \in MatchSources }

ExistingLeads == { l \in IncomingLeads : l.email = EmailA }

InitMatch ==
  /\ NoProcess
  /\ NoServer
  /\ call \in { [fn |-> "leadsMatch", stage |-> "called",
                  incoming |-> i, existing |-> withId(e)] :
                  i \in IncomingLeads, e \in ExistingLeads }
  /\ emailIndices = <<>>
  /\ outputs = <<>>

\* `if (existing) { if (!leadsMatch(lead, existing)) ... }` of processLeads:
\* the comparison and the branch taken on it.
Compare ==
  /\ call.fn = "leadsMatch"
  /\ call.stage = "called"
  /\ outputs' = Append(outputs,
                       [match  |-> leadsMatch(call.incoming, call.existing),
                        action |-> afterLookup(call.incoming, call.existing)])
  /\ call' = [call EXCEPT !.stage = "returned"]
  /\ UNCHANGED processVars
  /\ UNCHANGED emailIndices

NextMatch == Compare

SpecMatch == InitMatch /\ [][NextMatch]_vars

\* ------------------------------------------------- validateLead on its own
\* Field values around every rule: empty, blank, padded, wrong letter case,
\* and e-mails with each part of the pattern missing, doubled or spaced.
ValidateNames == { Jane, <<>>, Blank, <<"\t", " ">> }

ValidateEmails ==
  { EmailA, EmailAUp,
    <<"a", ".", "b", "@", "x", ".", "c">>,
    <<"a", "@", "x", ".", "y", ".", "c">>,
    <<"a", "@", ".", "x", ".", "c">>,
    <<>>, BadEmail,
    <<" ", "a", "@", "x", ".", "c">>,
    <<"a", "@", "x", ".", "c", " ">>,
    <<"a", " ", "@", "x", ".", "c">>,
    <<"a", "@", "x", "\t", ".", "c">>,
    <<"a", "@", "@", "x", ".", "c">>,
    <<"a", "@", "b", "@", "x", ".", "c">>,
    <<"@", "x", ".", "c">>,
    <<"a", "@", ".", "c">>,
    <<"a", "@", "x", ".">>,
    <<"a", "@", "x", "c">>,
    <<"a", ".", "b", "@", "x", "c">>,
    <<"a", "x", ".", "c">> }

ValidateCompanies == { NewCorp, NewCorpSp, <<>>, Blank, <<" ", "\t">> }

ValidateSources ==
  VALID_SOURCES \cup
    { <<>>, Blank, <<"\t", " ">>, TikTok, toLowerCase(LinkedIn),
      LinkedIn \o <<" ">>, <<" ">> \o Webinar,
      <<"W","e","b">> }

ValidateLeads ==
  { MkLead(n, e, c, s) : n \in ValidateNames, e \in ValidateEmails,
                         c \in ValidateCompanies, s \in ValidateSources }

InitValidate ==
  /\ NoProcess
  /\ NoServer
  /\ call \in { [fn |-> f, stage |-> "called", lead |-> l] :
                  f \in {"validateLead", "validateLeadEarlier"},
                  l \in ValidateLeads }
  /\ emailIndices = <<>>
  /\ outputs = <<>>

\* validateLead(lead), the definition the tests are written for.
Validate ==
  /\ call.fn = "validateLead"
  /\ call.stage = "called"
  /\ outputs' = Append(outputs, validateLead(call.lead))
  /\ call' = [call EXCEPT !.stage = "returned"]
  /\ UNCHANGED processVars
  /\ UNCHANGED emailIndices

\* validateLead(lead), the earlier definition.
ValidateEarlier ==
  /\ call.fn = "validateLeadEarlier"
  /\ call.stage = "called"
  /\ outputs' = Append(outputs, validateLeadEarlier(call.lead))
  /\ call' = [call EXCEPT !.stage = "returned"]
  /\ UNCHANGED processVars
  /\ UNCHANGED emailIndices

NextValidate == Validate \/ ValidateEarlier

SpecValidate == InitValidate /\ [][NextValidate]_vars

\* ---------------------------------------- detectDuplicateEmails on its own
\* A Map is the sequence of its entries in insertion order; an index is the
\* zero-based position forEach passes to its callback.

\* The Map of the previous call used again.
newMap_kept == emailIndices

\* new Map<string, number[]>()
newMap == <<>>

\* The callback of forEach: push the index to the e-mail's list, or set a
\* new list holding it.
recordIndex(map, email, index) ==
  IF \E k \in 1..Len(map) : map[k].key = email
  THEN [k \in 1..Len(map) |->
          IF map[k].key = email
          THEN [map[k] EXCEPT !.indices = Append(@, index)]
          ELSE map[k]]
  ELSE Append(map, [key |-> email, indices |-> <<index>>])

keepsEntry(entry) == Len(entry.indices) > 1

\* The final loop keeping every entry.
duplicatesOf_atLeastOne(map) == map

\* The entries with more than one index, copied into a new Map.
duplicatesOf(map) == SelectSeq(map, keepsEntry)

\* leads.forEach from index on, starting with the Map built so far.
RECURSIVE forEachFrom(_, _, _)
forEachFrom(ls, index, map) ==
  IF index >= Len(ls)
  THEN map
  ELSE forEachFrom(ls, index + 1,
                   recordIndex(map, toLowerCase(ls[index + 1].email), index))

\* detectDuplicateEmails(leads) from call to return.
detectDuplicateEmails(ls) == duplicatesOf(forEachFrom(ls, 0, newMap))

DetectEmails == { EmailA, EmailAUp, EmailB }

DetectInputs ==
  UNION { [1..n -> { MkLead(Jane, e, NewCorp, LinkedIn) : e \in DetectEmails }] :
            n \in 0..MaxLeads }

InitDetect ==
  /\ NoProcess
  /\ NoServer
  /\ call \in { [fn |-> "detectDuplicateEmails", stage |-> "called",
                  leads |-> ls, index |-> 0] : ls \in DetectInputs }
  /\ emailIndices = <<>>
  /\ outputs = <<>>

\* detectDuplicateEmails(leads) is entered.
DetectCall ==
  /\ call.fn = "detectDuplicateEmails"
  /\ call.stage = "called"
  /\ emailIndices' = newMap
  /\ call' = [call EXCEPT !.stage = "forEach", !.index = 0]
  /\ UNCHANGED processVars
  /\ UNCHANGED outputs

\* One iteration of leads.forEach.
DetectStep ==
  /\ call.fn = "detectDuplicateEmails"
  /\ call.stage = "forEach"
  /\ call.index < Len(call.leads)
  /\ emailIndices' =
        recordIndex(emailIndices,
                    toLowerCase(call.leads[call.index + 1].email), call.index)
  /\ call' = [call EXCEPT !.index = @ + 1]
  /\ UNCHANGED processVars
  /\ UNCHANGED outputs

\* forEach is over: the duplicates are selected and returned.
DetectReturn ==
  /\ call.fn = "detectDuplicateEmails"
  /\ call.stage = "forEach"
  /\ call.index = Len(call.leads)
  /\ outputs' = Append(outputs, duplicatesOf(emailIndices))
  /\ call' = [call EXCEPT !.stage = "returned"]
  /\ UNCHANGED processVars
  /\ UNCHANGED emailIndices

\* The caller invokes the function once more with the same arguments.
Recall ==
  /\ call.fn \in {"detectDuplicateEmails", "leadsMatch"}
  /\ call.stage = "returned"
  /\ Len(outputs) < MaxCalls
  /\ call' = [call EXCEPT !.stage = "called"]
  /\ UNCHANGED processVars
  /\ UNCHANGED << emailIndices, outputs >>

NextDetect == DetectCall \/ DetectStep \/ DetectReturn \/ Recall

SpecDetect == InitDetect /\ [][NextDetect]_vars

\* Both functions, each called repeatedly on the same arguments.
PureLeads ==
  { MkLead(Jane, EmailA, NewCorp, LinkedIn),
    MkLead(Jane, EmailAUp, NewCorpSp, LinkedIn),
    MkLead(Kate, EmailA, NewCorp, LinkedIn),
    MkLead(Jane, EmailA, OldCorp, Webinar) }

InitPure ==
  /\ NoProcess
  /\ NoServer
  /\ call \in { [fn |-> "detectDuplicateEmails", stage |-> "called",
                  leads |-> ls, index |-> 0] : ls \in DetectInputs }
              \cup
              { [fn |-> "leadsMatch", stage |-> "called",
                 incoming |-> i, existing |-> withId(e)] :
                 i \in PureLeads, e \in PureLeads }
  /\ emailIndices = <<>>
  /\ outputs = <<>>

NextPure == DetectCall \/ DetectStep \/ DetectReturn \/ Compare \/ Recall

SpecPure == InitPure /\ [][NextPure]_vars

\* ------------------------------------------------------------ the server
\* The Map `leads` of server.js is a function from its keys to the stored
\* leads; the timestamps of a stored lead are left out.
validSources ==
  { <<"L","i","n","k","e","d","I","n">>, <<"W","e","b","i","n","a","r">>,
    <<"C","o","n","f","e","r","e","n","c","e">>,
    <<"R","e","f","e","r","r","a","l">>, <<"T","w","i","t","t","e","r">>,
    <<"W","e","b","s","i","t","e">> }

\* emailRegex = /^[^\s@]+@[^\s@]+\.[^\s@]+$/, the pattern of the client
validateEmail(email) == EMAIL_REGEX_test(email)

\* validateLeadData(data).isValid, for a body carrying all four fields
validateLeadData(data) ==
  /\ ~(data.name = <<>> \/ Len(trim(data.name)) = 0)
  /\ ~(data.email = <<>> \/ ~validateEmail(data.email))
  /\ ~(data.company = <<>> \/ Len(trim(data.company)) = 0)
  /\ ~(data.source = <<>> \/ Len(trim(data.source)) = 0)
  /\ ~(data.source # <<>> /\ data.source \notin validSources)

\* shouldSimulateRateLimit() and shouldSimulateServerError(): which of the
\* two random failures, if any, a request runs into.
Simulated == {"none", "rateLimit", "serverError"}

Reply(status, data) == [status |-> status, data |-> data]

\* A handler's reply together with the store and nextId it leaves.
served(reply, st, nid) == [reply |-> reply, store |-> st, nextId |-> nid]

simulatedReply(sim) ==
  IF sim = "rateLimit"
  THEN Reply(429, [error |-> "Rate limit exceeded"])
  ELSE Reply(500, [error |-> "Internal server error"])

\* GET /api/leads/lookup
lookupHandler(st, nid, email, sim) ==
  IF sim # "none" THEN served(simulatedReply(sim), st, nid)
  ELSE IF email = <<>>
  THEN served(Reply(400, [error |-> "Email parameter is required"]), st, nid)
  ELSE IF ~validateEmail(email)
  THEN served(Reply(400, [error |-> "Invalid email format"]), st, nid)
  ELSE IF toLowerCase(email) \in DOMAIN st
  THEN served(Reply(200, [found |-> TRUE, lead |-> st[toLowerCase(email)]]),
              st, nid)
  ELSE served(Reply(200, [found |-> FALSE]), st, nid)

\* The create handler inserting a valid new lead before it draws the
\* simulated failures.
createHandler_insertFirst(st, nid, leadData, sim) ==
  IF ~validateLeadData(leadData)
  THEN IF sim # "none" THEN served(simulatedReply(sim), st, nid)
       ELSE served(Reply(400, [error |-> "Validation failed"]), st, nid)
  ELSE LET email == toLowerCase(leadData.email)
       IN IF email \in DOMAIN st
          THEN IF sim # "none" THEN served(simulatedReply(sim), st, nid)
               ELSE served(Reply(409, [error |-> "Lead already exists"]),
                           st, nid)
          ELSE LET newLead == [id      |-> ToString(nid),
                               name    |-> trim(leadData.name),
                               email   |-> email,
                               company |-> trim(leadData.company),
                               source  |-> leadData.source]
                   inserted == [k \in DOMAIN st \cup {email} |->
                                  IF k = email THEN newLead ELSE st[k]]
               IN IF sim # "none"
                  THEN served(simulatedReply(sim), inserted, nid + 1)
                  ELSE served(Reply(201, [success |-> TRUE,
                                          lead |-> newLead]),
                              inserted, nid + 1)

\* The create handler looking the e-mail up as it was sent.
createHandler_rawKey(st, nid, leadData, sim) ==
  IF sim # "none" THEN served(simulatedReply(sim), st, nid)
  ELSE IF ~validateLeadData(leadData)
  THEN served(Reply(400, [error |-> "Validation failed"]), st, nid)
  ELSE IF leadData.email \in DOMAIN st
  THEN served(Reply(409, [error |-> "Lead already exists"]), st, nid)
  ELSE LET email == toLowerCase(leadData.email)
           newLead == [id      |-> ToString(nid),
                       name    |-> trim(leadData.name),
                       email   |-> email,
                       company |-> trim(leadData.company),
                       source  |-> leadData.source]
       IN served(Reply(201, [success |-> TRUE, lead |-> newLead]),
                 [k \in DOMAIN st \cup {email} |->
                    IF k = email THEN newLead ELSE st[k]],
                 nid + 1)

\* POST /api/leads/create
createHandler(st, nid, leadData, sim) ==
  IF sim # "none" THEN served(simulatedReply(sim), st, nid)
  ELSE IF ~validateLeadData(leadData)
  THEN served(Reply(400, [error |-> "Validation failed"]), st, nid)
  ELSE LET email == toLowerCase(leadData.email)
       IN IF email \in DOMAIN st
          THEN served(Reply(409, [error |-> "Lead already exists"]), st, nid)
          ELSE LET newLead == [id      |-> ToString(nid),
                               name    |-> trim(leadData.name),
                               email   |-> email,
                               company |-> trim(leadData.company),
                               source  |-> leadData.source]
               IN served(Reply(201, [success |-> TRUE, lead |-> newLead]),
                         [k \in DOMAIN st \cup {email} |->
                            IF k = email THEN newLead ELSE st[k]],
                         nid + 1)

\* POST /api/leads/update
updateHandler(st, nid, updateData, sim) ==
  IF sim # "none" THEN served(simulatedReply(sim), st, nid)
  ELSE IF updateData.email = <<>> \/ ~validateEmail(updateData.email)
  THEN served(Reply(400, [error |-> "Valid email is required"]), st, nid)
  ELSE LET email == toLowerCase(updateData.email)
       IN IF email \notin DOMAIN st
          THEN served(Reply(404, [error |-> "Lead not found"]), st, nid)
          ELSE IF ~validateLeadData(updateData)
          THEN served(Reply(400, [error |-> "Validation failed"]), st, nid)
          ELSE LET updatedLead ==
                     [st[email] EXCEPT !.name = trim(updateData.name),
                                       !.company = trim(updateData.company),
                                       !.source = updateData.source]
               IN served(Reply(200, [success |-> TRUE, lead |-> updatedLead]),
                         [st EXCEPT ![email] = updatedLead], nid)

handlerOf(route, st, nid, body, sim) ==
  CASE route = "lookup" -> lookupHandler(st, nid, body, sim)
    [] route = "create" -> createHandler(st, nid, body, sim)
    [] route = "update" -> updateHandler(st, nid, body, sim)

\* What axios makes of a reply: it resolves on a 2xx status and rejects on
\* any other.
axiosOutcome(reply) ==
  IF reply.status >= 200 /\ reply.status < 300
  THEN Resolved(reply.data)
  ELSE Rejected(statusError(reply.status))

\* The server as started: nothing stored, or one sample lead.
SampleLead ==
  [id |-> "1", name |-> Jane, email |-> EmailA, company |-> OldCorp,
   source |-> LinkedIn]

ServerStates ==
  { [store |-> <<>>, nextId |-> 1],
    [store |-> [k \in {EmailA} |-> SampleLead], nextId |-> 2] }

\* Request bodies: valid leads with a new and with a stored e-mail, in other
\* letter case, with padded name and company, and invalid ones.
ServerBodies ==
  { MkLead(Jane, EmailA, NewCorp, LinkedIn),
    MkLead(Kate, EmailAUp, NewCorpSp, Webinar),
    MkLead(<<" ", "J">>, EmailB, NewCorp, LinkedIn),
    MkLead(Blank, EmailB, NewCorp, LinkedIn),
    MkLead(Jane, BadEmail, NewCorp, LinkedIn),
    MkLead(Jane, EmailB, NewCorp, TikTok) }

InitServer ==
  /\ NoProcess
  /\ \E s \in ServerStates : store = s.store /\ nextId = s.nextId
  /\ run = 1
  /\ call = NoCall
  /\ emailIndices = <<>>
  /\ outputs = <<>>

\* The server handles one request; `call` keeps the request, the store it
\* met and the reply.
handle(route, body, sim) ==
  LET o == handlerOf(route, store, nextId, body, sim)
  IN /\ call' = [fn |-> route, body |-> body, sim |-> sim,
                  before |-> store, reply |-> o.reply]
     /\ store' = o.store
     /\ nextId' = o.nextId
     /\ UNCHANGED clientVars
     /\ UNCHANGED << emailIndices, outputs, run >>

HandleLookup ==
  \E l \in ServerBodies, sim \in Simulated : handle("lookup", l.email, sim)

HandleCreate ==
  \E l \in ServerBodies, sim \in Simulated : handle("create", l, sim)

HandleUpdate ==
  \E l \in ServerBodies, sim \in Simulated : handle("update", l, sim)

NextServer == HandleLookup \/ HandleCreate \/ HandleUpdate

SpecServer == InitServer /\ [][NextServer]_vars

\* ------------------------------------------- create requests in flight
\* MaxInFlight create requests have reached the server together and each
\* handler is suspended in `await delay(getRandomDelay())`; `call` keeps
\* the store they arrived at and, for each request, its body, its stage and
\* its reply.
InitConcurrent ==
  /\ NoProcess
  /\ \E s \in ServerStates : store = s.store /\ nextId = s.nextId
  /\ run = 1
  /\ \E bodies \in [1..MaxInFlight -> ServerBodies] :
       call = [fn |-> "create", before |-> store,
               inFlight |-> [n \in 1..MaxInFlight |->
                               [body |-> bodies[n], stage |-> "delay",
                                reply |-> Reply(0, Null)]]]
  /\ emailIndices = <<>>
  /\ outputs = <<>>

\* The create handler testing leads.has(email) on the store as it was when
\* the request arrived, and inserting once its delay is over.
Resume_checkedBeforeDelay(n) ==
  /\ call.fn = "create"
  /\ call.inFlight[n].stage = "delay"
  /\ \E sim \in Simulated :
       LET o == createHandler(call.before, nextId, call.inFlight[n].body, sim)
           email == toLowerCase(call.inFlight[n].body.email)
       IN /\ call' = [call EXCEPT !.inFlight[n].stage = "replied",
                                  !.inFlight[n].reply = o.reply]
          /\ store' = IF o.reply.status = 201
                      THEN [k \in DOMAIN store \cup {email} |->
                              IF k = email THEN o.reply.data.lead
                              ELSE store[k]]
                      ELSE store
          /\ nextId' = o.nextId
  /\ UNCHANGED clientVars
  /\ UNCHANGED << emailIndices, outputs, run >>

\* The delay of request n is over: the rest of its handler runs to its
\* reply without giving the event loop back (there is no await after the
\* first line of the handler).
Resume(n) ==
  /\ call.fn = "create"
  /\ call.inFlight[n].stage = "delay"
  /\ \E sim \in Simulated :
       LET o == createHandler(store, nextId, call.inFlight[n].body, sim)
       IN /\ call' = [call EXCEPT !.inFlight[n].stage = "replied",
                                  !.inFlight[n].reply = o.reply]
          /\ store' = o.store
          /\ nextId' = o.nextId
  /\ UNCHANGED clientVars
  /\ UNCHANGED << emailIndices, outputs, run >>

\* The timers of the delays fire in any order.
NextConcurrent == \E n \in 1..MaxInFlight : Resume(n)

SpecConcurrent == InitConcurrent /\ [][NextConcurrent]_vars

\* --------------------------------------- processLeads against the server
\* Leads of the batches run against the server: plain ones, one sharing an
\* e-mail up to letter case, one with a padded company, one with a padded
\* name.
RerunPool ==
  { MkLead(Jane, EmailA, NewCorp, LinkedIn),
    MkLead(Jane, EmailAUp, NewCorpSp, LinkedIn),
    MkLead(Kate, EmailB, OldCorp, Webinar),
    MkLead(<<" ", "J">>, EmailB, NewCorp, LinkedIn) }

RerunBatches == UNION { [1..n -> RerunPool] : n \in 1..MaxBatch }

InitRerun ==
  /\ leads \in RerunBatches
  /\ BASE_DELAY \in {0, 1000}
  /\ idx = 1
  /\ pc = "loop"
  /\ seenEmails = {}
  /\ results = <<>>
  /\ summary = NoSummary
  /\ events = <<>>
  /\ operation = "none"
  /\ payload = Null
  /\ attempt = 0
  /\ requests = 0
  /\ failed = 0
  /\ lastError = NoError
  /\ fnResult = NotSettled
  /\ waits = <<>>
  /\ settled = NotSettled
  /\ classified = Unclassified(NoError)
  /\ response = NoResponse
  /\ file = NoFile
  /\ exitCode = -1
  /\ call = NoCall
  /\ emailIndices = <<>>
  /\ outputs = <<>>
  /\ \E s \in ServerStates : store = s.store /\ nextId = s.nextId
  /\ run = 1

\* The request in flight is handled by the server and its reply reaches the
\* client.
Serve ==
  /\ pc = "request"
  /\ \E sim \in Simulated :
       LET o == handlerOf(operation, store, nextId, payload, sim)
       IN /\ receive(axiosOutcome(o.reply))
          /\ store' = o.store
          /\ nextId' = o.nextId
  /\ UNCHANGED << run, call, emailIndices, outputs, classified, file, exitCode,
                  leads, BASE_DELAY, idx, seenEmails, results, summary, events,
                  operation, payload >>

\* A run that finished with no errors is followed by a second run of
\* processLeads on the same batch, against the store the first one left.
Rerun ==
  /\ pc = "done"
  /\ run = 1
  /\ summary.errors = 0
  /\ run' = 2
  /\ pc' = "loop"
  /\ idx' = 1
  /\ seenEmails' = {}
  /\ results' = <<>>
  /\ summary' = NoSummary
  /\ events' = <<>>
  /\ UNCHANGED << leads, BASE_DELAY, operation, payload, attempt, requests,
                  failed, lastError, fnResult, waits, settled, classified,
                  response, file, exitCode, call, emailIndices, outputs,
                  store, nextId >>

NextRerun == StartRecord \/ Serve \/ Wake \/ Continue \/ Finish \/ Rerun

SpecRerun == InitRerun /\ [][NextRerun]_vars

\* ------------------------------- processLeads over a connection that fails
\* One run of processLeads against the server; `call` keeps the store the
\* run started with.
InitLossy ==
  /\ leads \in RerunBatches
  /\ BASE_DELAY \in {0, 1000}
  /\ idx = 1
  /\ pc = "loop"
  /\ seenEmails = {}
  /\ results = <<>>
  /\ summary = NoSummary
  /\ events = <<>>
  /\ clientIdleNow
  /\ classified = Unclassified(NoError)
  /\ file = NoFile
  /\ exitCode = -1
  /\ emailIndices = <<>>
  /\ outputs = <<>>
  /\ \E s \in ServerStates : store = s.store /\ nextId = s.nextId
  /\ call = [fn |-> "processLeads", before |-> store]
  /\ run = 1

\* The request in flight ends on the client with a connection timeout
\* (ETIMEDOUT): either it never reached the server, or the server handled
\* it and the reply was lost.
ServeLost ==
  /\ pc = "request"
  /\ \E sim \in Simulated, handled \in BOOLEAN :
       LET o == handlerOf(operation, store, nextId, payload, sim)
       IN /\ receive(Rejected(timeoutError("ETIMEDOUT")))
          /\ store' = IF handled THEN o.store ELSE store
          /\ nextId' = IF handled THEN o.nextId ELSE nextId
  /\ UNCHANGED << run, call, emailIndices, outputs, classified, file, exitCode,
                  leads, BASE_DELAY, idx, seenEmails, results, summary, events,
                  operation, payload >>

NextLossy ==
  StartRecord \/ Serve \/ ServeLost \/ Wake \/ Continue \/ Finish

SpecLossy == InitLossy /\ [][NextLossy]_vars

\* ------------------------------------------------ isRetryable on its own
\* Errors of every shape isRetryable can be handed: with or without a
\* response status, with or without a code, from axios or not.
ErrorShapes ==
  { MkError(ax, st, cd, <<"failure">>) :
      ax \in BOOLEAN,
      st \in {0, 400, 401, 403, 404, 409, 422, 429, 500, 501, 502, 503, 504},
      cd \in {"", "ECONNABORTED", "ETIMEDOUT", "ECONNRESET",
              "ERR_BAD_REQUEST", "ERR_BAD_RESPONSE"} }
    \cup {MalformedError, InOperatorTypeError}

InitClassify ==
  /\ classified \in {Unclassified(e) : e \in ErrorShapes}
  /\ leads = <<>>
  /\ BASE_DELAY = 0
  /\ idx = 1
  /\ pc = "loop"
  /\ seenEmails = {}
  /\ results = <<>>
  /\ summary = NoSummary
  /\ events = <<>>
  /\ operation = "none"
  /\ payload = Null
  /\ attempt = 0
  /\ requests = 0
  /\ failed = 0
  /\ lastError = NoError
  /\ fnResult = NotSettled
  /\ waits = <<>>
  /\ settled = NotSettled
  /\ response = NoResponse
  /\ file = NoFile
  /\ exitCode = -1
  /\ call = NoCall
  /\ emailIndices = <<>>
  /\ outputs = <<>>
  /\ store = <<>>
  /\ nextId = 1
  /\ run = 1

\* isRetryable(err) is called.
Classify ==
  /\ classified.verdict = "pending"
  /\ classified' = [classified EXCEPT !.verdict =
                      IF isRetryable(classified.err)
                      THEN "retryable" ELSE "non-retryable"]
  /\ UNCHANGED << leads, BASE_DELAY, idx, pc, seenEmails, results, summary,
                  events, operation, payload, attempt, requests, failed,
                  lastError, fnResult, waits, settled, response, file,
                  exitCode, call, emailIndices, outputs, store, nextId, run >>

NextClassify == Classify

SpecClassify == InitClassify /\ [][NextClassify]_vars

\* ------------------------------------------------------- reading the log
\* Number of calls of client operation o made for record i.
callsOf(i, o) ==
  Cardinality({k \in 1..Len(events) :
                 events[k].rec = i /\ events[k].op = o /\ events[k].ev = "call"})

anyCall(i) == \E k \in 1..Len(events) : events[k].rec = i

\* The returns of client operation o for record i, as positions of the log.
returnsOf(i, o) ==
  {k \in 1..Len(events) :
     events[k].rec = i /\ events[k].op = o /\ events[k].ev = "return"}

\* lookupLead reported "not found" for record i.
lookupNotFound(i) ==
  \E k \in returnsOf(i, "lookup") : events[k].res.ok /\ events[k].res.value = Null

\* Record i has its outcome.
finished(i) == i <= Len(results)

\* Record i passes the four field rules.
passes(i) ==
  /\ ~nameViolated(leads[i])
  /\ ~emailViolated(leads[i])
  /\ ~companyViolated(leads[i])
  /\ ~sourceViolated(leads[i])

\* ----------------------------------------------------------------- claims
\* C1 (as stated): every record for which lookup reported "not found" got
\* exactly one create call, no update call, and the outcome "created".
C1_AsStated ==
  \A i \in 1..Len(results) :
     lookupNotFound(i) =>
        /\ callsOf(i, "create") = 1
        /\ callsOf(i, "update") = 0
        /\ results[i].action = "created"

\* C1 (amended): every record for which lookup reported "not found" got
\* exactly one create call and no update call, and its outcome is "created"
\* exactly when that create call returned successfully.
C1_CreateOnNotFound ==
  \A i \in 1..Len(results) :
     lookupNotFound(i) =>
        /\ callsOf(i, "create") = 1
        /\ callsOf(i, "update") = 0
        /\ (results[i].action = "created"
              <=> \E k \in returnsOf(i, "create") : events[k].res.ok)

C1_Witness ==
  \E i \in 1..Len(results) :
     /\ lookupNotFound(i)
     /\ callsOf(i, "create") = 1
     /\ results[i].action = "created"

\* C2 (as stated): of the records sharing an e-mail, the first one triggers
\* remote calls and every later one is "skipped" without any call.
C2_AsStated ==
  pc = "done" =>
    \A i \in 1..Len(leads), j \in 1..Len(leads) :
       (i < j /\ leads[i].email = leads[j].email
          /\ ~\E h \in 1..(i - 1) : leads[h].email = leads[i].email)
         => /\ anyCall(i)
            /\ results[j].action = "skipped"
            /\ ~anyCall(j)

\* C2 (amended): of the records that pass validation and share a lower-cased
\* e-mail, exactly the first one triggers remote calls (one lookup call);
\* every later one is "skipped" without any call, however the first resolved.
C2_FirstValidOccurrenceWins ==
  \A j \in 1..Len(results) :
     passes(j) =>
        IF \E i \in 1..(j - 1) :
              passes(i) /\ toLowerCase(leads[i].email) = toLowerCase(leads[j].email)
        THEN results[j].action = "skipped" /\ ~anyCall(j)
        ELSE callsOf(j, "lookup") = 1

\* The first occurrence ended in an error of the remote, the second, which
\* differs in letter case, is skipped without a call.
C2_Witness ==
  /\ Len(results) = 2
  /\ passes(1) /\ passes(2)
  /\ leads[1].email # leads[2].email
  /\ toLowerCase(leads[1].email) = toLowerCase(leads[2].email)
  /\ results[1].action = "error"
  /\ results[2].action = "skipped"
  /\ ~anyCall(2)

\* The fragments of a joined message list that are messages.
messagesIn(joined) == {joined[k] : k \in 1..Len(joined)} \ {"; "}

\* The messages of the rules lead l violates.
violatedMessages(l) ==
  (IF trim(l.name) = <<>> THEN {"Name is required"} ELSE {})
    \cup (IF ~EMAIL_REGEX_test(l.email) THEN {"Invalid email format"} ELSE {})
    \cup (IF trim(l.company) = <<>> THEN {"Company is required"} ELSE {})
    \cup (IF trim(l.source) = <<>> THEN {"Source is required"}
          ELSE IF l.source \notin VALID_SOURCES THEN {"Invalid source"}
          ELSE {})

\* C3: a record that fails validation never triggers a lookup, create or
\* update call, and its outcome is an error carrying the message of every
\* rule it violates.
C3_InvalidNeverReachesRemote ==
  /\ \A k \in 1..Len(events) : violatedMessages(leads[events[k].rec]) = {}
  /\ \A i \in 1..Len(results) :
        violatedMessages(leads[i]) # {} =>
           /\ ~anyCall(i)
           /\ results[i].action = "error"
           /\ messagesIn(results[i].error) = violatedMessages(leads[i])
           /\ Len(results[i].error) = 2 * Cardinality(violatedMessages(leads[i])) - 1

C3_Witness ==
  \E i \in 1..Len(results) :
     /\ Cardinality(violatedMessages(leads[i])) = 4
     /\ results[i].action = "error"
     /\ ~anyCall(i)

\* The four compared fields of an incoming lead and a stored lead agree:
\* name and source as they are, e-mail up to letter case, company up to
\* surrounding and repeated whitespace.
fieldsAgree(a, b) ==
  /\ a.name = b.name
  /\ a.source = b.source
  /\ toLowerCase(a.email) = toLowerCase(b.email)
  /\ collapseWhitespace(trim(a.company)) = collapseWhitespace(trim(b.company))

\* Lookup returned a stored lead for record i (position k of the log).
lookupFound(i, k) ==
  /\ k \in returnsOf(i, "lookup")
  /\ events[k].res.ok
  /\ events[k].res.value # Null

\* C4: a record whose four fields agree with the lead returned by lookup is
\* "skipped", and neither create nor update is called for it.
C4_IdenticalIsSkipped ==
  \A k \in 1..Len(events) :
     LET i == events[k].rec
     IN (lookupFound(i, k) /\ fieldsAgree(leads[i], events[k].res.value)) =>
           /\ finished(i)
           /\ results[i].action = "skipped"
           /\ callsOf(i, "create") = 0
           /\ callsOf(i, "update") = 0

\* Skipped although e-mail case and company whitespace differ from the
\* stored lead.
C4_Witness ==
  \E k \in 1..Len(events) :
     LET i == events[k].rec
     IN /\ lookupFound(i, k)
        /\ fieldsAgree(leads[i], events[k].res.value)
        /\ leads[i].email # events[k].res.value.email
        /\ leads[i].company # events[k].res.value.company
        /\ finished(i)
        /\ results[i].action = "skipped"

\* C5: a record that differs in a compared field from the lead returned by
\* lookup gets an update call and never a create call; the update call is
\* made right after lookup has returned; when update succeeds the outcome
\* is "updated".
C5_DifferentIsUpdated ==
  /\ \A k \in 1..Len(events) :
        LET i == events[k].rec
        IN (lookupFound(i, k) /\ ~fieldsAgree(leads[i], events[k].res.value)) =>
              /\ k < Len(events)
              /\ events[k + 1] = [rec |-> i, op |-> "update", ev |-> "call"]
              /\ callsOf(i, "update") = 1
              /\ callsOf(i, "create") = 0
              /\ \A m \in returnsOf(i, "update") :
                    events[m].res.ok =>
                       finished(i) /\ results[i].action = "updated"
  /\ \A m \in 1..Len(events) :
        (events[m].op = "update" /\ events[m].ev = "call") =>
           /\ m > 1
           /\ lookupFound(events[m].rec, m - 1)
  /\ (operation = "update" /\ pc \in {"request", "backoff", "settled"}) =>
        \E k \in 1..Len(events) : lookupFound(idx, k)

C5_Witness ==
  \E k \in 1..Len(events) :
     LET i == events[k].rec
     IN /\ lookupFound(i, k)
        /\ ~fieldsAgree(leads[i], events[k].res.value)
        /\ finished(i)
        /\ results[i].action = "updated"

\* C6: processLeads returns with exactly one outcome per input record, in
\* input order, whatever failed on the way; until it has returned there is
\* always a next step, so a failed record never stops the loop.
C6_NoFailureAbortsBatch ==
  /\ pc = "done" =>
        /\ Len(results) = Len(leads)
        /\ \A i \in 1..Len(leads) : results[i].lead = leads[i]
  /\ pc # "done" => ENABLED Next
  /\ Len(results) = idx - 1

\* The first record ended in an error of the remote and the second one was
\* still created.
C6_Witness ==
  /\ pc = "done"
  /\ Len(leads) = 2
  /\ results[1].action = "error"
  /\ anyCall(1)
  /\ results[2].action = "created"

\* A failure the client is meant to retry: a timeout, a rate limit, or a
\* transient server response.
transient(e) ==
  \/ e.code \in {"ECONNABORTED", "ETIMEDOUT"}
  \/ e.status \in {429, 500, 502, 503, 504}

\* C7: when attempt N+1 <= 3 of a client operation succeeds after N
\* retryable failures, withRetry returns that result after exactly N+1
\* requests; a retryable failure of attempt 1 or 2 is not surfaced.
C7_RetryThenSuccess ==
  /\ (fnResult # NotSettled /\ fnResult.ok) =>
        /\ pc = "settled"
        /\ settled = fnResult
        /\ requests = failed + 1
        /\ requests <= 3
  /\ (pc = "settled" /\ ~fnResult.ok /\ transient(fnResult.error)) =>
        requests = 3

C7_Witness ==
  /\ pc = "settled"
  /\ settled.ok
  /\ failed = 2
  /\ requests = 3

\* C8: when every attempt fails with a retryable error, withRetry makes
\* exactly 3 requests and then throws an error whose message names 3
\* attempts and ends with the message of the last underlying error.
C8_ExhaustedRaisesAggregate ==
  (pc = "settled" /\ ~fnResult.ok /\ transient(fnResult.error)) =>
     /\ requests = 3
     /\ failed = 3
     /\ ~settled.ok
     /\ settled.error.message =
          <<"Max retries exhausted after ", "3", " attempts. Last error: ">>
            \o fnResult.error.message
     /\ fnResult.error.message # <<>>

C8_Witness ==
  /\ pc = "settled"
  /\ ~settled.ok
  /\ failed = 3
  /\ requests = 3
  /\ settled.error.message[2] = "3"

\* C9: a non-retryable failure is thrown to the caller as it is, with no
\* further request and no backoff wait after it; when it is the first
\* failure of the operation, exactly one request was made and nothing was
\* waited for.
C9_NonRetryablePropagates ==
  /\ (fnResult # NotSettled /\ ~fnResult.ok /\ ~transient(fnResult.error)) =>
        /\ pc = "settled"
        /\ settled = fnResult
        /\ requests = failed + 1
        /\ Len(waits) <= failed
        /\ failed = 0 => (requests = 1 /\ waits = <<>>)
  /\ (pc = "settled" /\ ~settled.ok /\ failed = 0) =>
        (requests = 1 /\ waits = <<>> /\ settled.error = lastError)

C9_Witness ==
  /\ pc = "settled"
  /\ ~settled.ok
  /\ ~transient(settled.error)
  /\ settled.error.status = 400
  /\ requests = 1
  /\ BASE_DELAY = 1000

\* C10: isRetryable answers "retryable" exactly for a timeout code
\* (ECONNABORTED, ETIMEDOUT), a 429, or a 500, 502, 503 or 504; every other
\* failure, such as a 400, 404 or 409 or a malformed response, is
\* non-retryable.
C10_RetryableClassification ==
  classified.verdict # "pending" =>
     /\ (classified.verdict = "retryable") <=> transient(classified.err)
     /\ (classified.err.status \in {400, 404, 409}
           /\ classified.err.code \notin {"ECONNABORTED", "ETIMEDOUT"})
          => classified.verdict = "non-retryable"
     /\ classified.err = MalformedError => classified.verdict = "non-retryable"

C10_Witness ==
  /\ classified.verdict = "retryable"
  /\ classified.err.code = "ETIMEDOUT"
  /\ classified.err.status = 0

\* A successful reply that, once a nested lead is unwrapped, lacks name or
\* email (a reply without any data included).
malformedReply(resp) ==
  /\ resp.resolved
  /\ \/ resp.data = Null
     \/ /\ ~("found" \in DOMAIN resp.data /\ resp.data.found = FALSE)
        /\ LET inner == IF "lead" \in DOMAIN resp.data
                        THEN resp.data.lead ELSE resp.data
           IN "name" \notin DOMAIN inner \/ "email" \notin DOMAIN inner

MalformedMessage ==
  <<"Malformed API response: missing expected fields (name, email)">>

\* C11: a malformed response is never retried: the operation fails at once
\* with no request after it (exactly one request when nothing failed
\* before), and the record's outcome is "error".
C11_MalformedNeverRetried ==
  /\ (response # NoResponse /\ malformedReply(response)) =>
        /\ pc = "settled"
        /\ ~settled.ok
        /\ settled = fnResult
        /\ requests = failed + 1
        /\ Len(waits) <= failed
        /\ response.data # Null => settled.error.message = MalformedMessage
  /\ \A k \in 1..Len(events) :
        (/\ events[k].ev = "return"
         /\ ~events[k].res.ok
         /\ events[k].res.error.message = MalformedMessage) =>
           /\ finished(events[k].rec)
           /\ results[events[k].rec].action = "error"
           /\ results[events[k].rec].error = MalformedMessage

\* A reply whose nested lead has no name ended the operation at its first
\* request, in production configuration.
C11_Witness ==
  /\ pc = "settled"
  /\ malformedReply(response)
  /\ response.data # Null
  /\ "lead" \in DOMAIN response.data
  /\ requests = 1
  /\ BASE_DELAY = 1000

\* The two ways the remote says "not found" to a lookup.
notFoundSignal(resp) ==
  \/ /\ resp.resolved
     /\ resp.data # Null
     /\ "found" \in DOMAIN resp.data
     /\ resp.data.found = FALSE
  \/ /\ ~resp.resolved
     /\ resp.error.status = 404

\* C12: lookupLead answers both not-found signals, the found=false reply and
\* the 404 status, with null and without a retry, and processLeads then
\* calls create; every other failure of the request stays a failure.
C12_NotFoundUnified ==
  /\ (operation = "lookup" /\ response # NoResponse) =>
        /\ notFoundSignal(response) =>
              /\ pc = "settled"
              /\ settled = Ok(Null)
              /\ requests = failed + 1
        /\ (~response.resolved /\ ~notFoundSignal(response)) =>
              /\ ~fnResult.ok
              /\ pc = "settled" => ~settled.ok
        /\ (pc = "settled" /\ settled = Ok(Null)) => notFoundSignal(response)
  /\ \A k \in 1..Len(events) :
        (/\ events[k].op = "lookup"
         /\ events[k].ev = "return"
         /\ events[k].res = Ok(Null)) =>
           /\ k < Len(events)
           /\ events[k + 1] = [rec |-> events[k].rec, op |-> "create",
                               ev |-> "call"]

C12_Witness ==
  /\ operation = "lookup"
  /\ pc = "settled"
  /\ ~response.resolved
  /\ response.error.status = 404
  /\ settled = Ok(Null)
  /\ requests = 1

\* The failed returns of client operation o, as positions of the log.
failuresOf(o) ==
  {k \in 1..Len(events) :
     events[k].op = o /\ events[k].ev = "return" /\ ~events[k].res.ok}

\* C13: when the update call of a record fails with a 409 the outcome is
\* "skipped"; every other failure of the update call gives "error".
C13_UpdateConflictSkipped ==
  \A k \in failuresOf("update") :
     LET i == events[k].rec
     IN /\ finished(i)
        /\ IF events[k].res.error.status = 409
           THEN results[i].action = "skipped"
           ELSE /\ results[i].action = "error"
                /\ results[i].error = events[k].res.error.message

C13_Witness ==
  \E k \in failuresOf("update") :
     /\ events[k].res.error.status = 409
     /\ results[events[k].rec].action = "skipped"

RECURSIVE tally(_, _)
tally(a, n) ==
  IF n = 0 THEN 0
  ELSE tally(a, n - 1) + (IF results[n].action = a THEN 1 ELSE 0)

\* C15: the summary is a fold over the outcomes: total is the number of
\* input records, each of created, updated, skipped and errors is the number
\* of outcomes with that action, and total is their sum.
C15_SummaryIsFold ==
  pc = "done" =>
     /\ summary.total = Len(leads)
     /\ summary.created = tally("created", Len(results))
     /\ summary.updated = tally("updated", Len(results))
     /\ summary.skipped = tally("skipped", Len(results))
     /\ summary.errors = tally("error", Len(results))
     /\ summary.total =
          summary.created + summary.updated + summary.skipped + summary.errors

\* A batch of two with one record created and one in error.
C15_Witness ==
  /\ pc = "done"
  /\ summary.total = 2
  /\ summary.created = 1
  /\ summary.errors = 1

\* Records of the batch that violate a rule.
rejected == {i \in 1..Len(leads) : violatedMessages(leads[i]) # {}}

\* C16: a record rejected by validation is counted in summary.errors, the
\* counter that also holds the records whose remote calls failed, and in no
\* other counter.
C16_RejectedCountedAsError ==
  pc = "done" =>
     /\ summary.errors =
          Cardinality(rejected)
            + Cardinality({i \in 1..Len(leads) :
                             i \notin rejected /\ results[i].action = "error"})
     /\ summary.created + summary.updated + summary.skipped =
          Cardinality({i \in 1..Len(leads) :
                         i \notin rejected /\ results[i].action # "error"})

\* One rejected record and one record whose remote call failed: errors = 2.
C16_Witness ==
  /\ pc = "done"
  /\ Cardinality(rejected) = 1
  /\ \E i \in 1..Len(leads) : i \notin rejected /\ results[i].action = "error"
  /\ summary.errors = 2

\* ---------------------------------------------------------------- C17
\* The file the run was started on is one parseCSVFile rejects, stated on
\* the file itself.
fatalInput ==
  \/ file.status # "ok"
  \/ file.lines = <<>>
  \/ \E h \in REQUIRED_HEADERS :
       \A j \in 1..Len(file.lines[1]) : file.lines[1][j] # h
  \/ \E k \in 2..Len(file.lines) :
       /\ file.lines[k] # <<>>
       /\ Len(file.lines[k]) # Len(file.lines[1])

\* The run went through reconciliation and main has exited.
completed == pc = "exited" /\ summary # NoSummary

\* C17: the process exits with code 0 when the run completes with no record
\* error (summary.errors = 0, no record's outcome is 'error') and with code 1
\* otherwise; no exit code exists before the process exits.
C17_ExitCode ==
  /\ pc # "exited" <=> exitCode = -1
  /\ pc = "exited" => exitCode \in {0, 1}
  /\ completed =>
       /\ exitCode = 0 <=> summary.errors = 0
       /\ exitCode = 0 <=>
            \A k \in 1..Len(results) : results[k].action # "error"
  /\ (pc = "exited" /\ ~completed) => exitCode = 1

C17_Witness ==
  /\ completed
  /\ exitCode = 0
  /\ summary.total = 2
  /\ summary.created = 1
  /\ summary.skipped = 1

\* ---------------------------------------------------------------- C18
\* C18: a fatal input error (unreadable file, missing required header,
\* column-count mismatch) aborts the run before reconciliation starts:
\* processLeads is never entered, no lead is loaded, no remote call is made,
\* no result and no summary is produced, and the process exits with code 1;
\* a file without such an error does reach processLeads.
C18_FatalInputAborts ==
  /\ fatalInput =>
       /\ pc \in {"main", "exited"}
       /\ leads = <<>>
       /\ events = <<>>
       /\ requests = 0
       /\ operation = "none"
       /\ results = <<>>
       /\ seenEmails = {}
       /\ summary = NoSummary
       /\ pc = "exited" => exitCode = 1
  /\ (~fatalInput /\ pc = "exited") => summary # NoSummary

C18_Witness ==
  /\ pc = "exited"
  /\ exitCode = 1
  /\ file.status = "ok"
  /\ Len(file.lines) = 3
  /\ Len(file.lines[3]) = 3
  /\ events = <<>>

\* ---------------------------------------------------------------- C19
\* The client operations started and not yet returned, by the log.
openCalls ==
  { k \in 1..Len(events) :
      /\ events[k].ev = "call"
      /\ ~\E m \in (k + 1)..Len(events) :
            /\ events[m].ev = "return"
            /\ events[m].rec = events[k].rec
            /\ events[m].op = events[k].op }

\* C19: processing is strictly sequential within one batch: at most one
\* client operation is open and at most one request in flight at any moment,
\* a request or a backoff wait belongs to the open operation of the current
\* record, every call is followed at once by its own return, the records
\* appear in the log in input order, and when the loop turns to a record
\* every call of the records before it has returned and their outcomes are
\* pushed.
C19_StrictlySequential ==
  /\ Cardinality(openCalls) <= 1
  /\ openCalls # {} <=> pc \in {"request", "backoff", "settled"}
  /\ pc \in {"request", "backoff", "settled"} =>
       /\ openCalls = {Len(events)}
       /\ events[Len(events)].rec = idx
       /\ events[Len(events)].op = operation
       /\ requests = attempt
  /\ pc \notin {"request", "backoff", "settled"} =>
       /\ operation = "none"
       /\ requests = 0
       /\ waits = <<>>
  /\ \A k \in 1..Len(events) :
       /\ k < Len(events) =>
            /\ events[k].rec <= events[k + 1].rec
            /\ events[k].ev = "call" =>
                 /\ events[k + 1].ev = "return"
                 /\ events[k + 1].rec = events[k].rec
                 /\ events[k + 1].op = events[k].op
            /\ events[k].ev = "return" => events[k + 1].ev = "call"
       /\ events[k].rec <= idx
       /\ (pc = "loop" /\ idx <= Len(leads)) => events[k].rec < idx
       /\ events[k].rec <= Len(results) + 1
  /\ pc = "loop" => Len(results) = idx - 1

C19_Witness ==
  /\ pc = "backoff"
  /\ idx = 2
  /\ operation = "update"
  /\ Len(events) = 7
  /\ events[1].rec = 1
  /\ events[3].op = "create"
  /\ events[4].ev = "return"
  /\ events[5].rec = 2

\* ---------------------------------------------------------------- C20
\* C20: after failed attempt k (k < 3) with a retryable error withRetry
\* waits base_delay * 2^(k-1) before attempt k+1: the first wait is
\* base_delay, the second twice that, there is no third, attempt k+1 is
\* issued only after k waits; with base_delay = 0 no wait occurs at all.
C20_BackoffDelays ==
  /\ Len(waits) <= MAX_RETRIES - 1
  /\ \A k \in 1..Len(waits) :
       waits[k] = IF k = 1 THEN BASE_DELAY ELSE 2 * waits[k - 1]
  /\ BASE_DELAY = 0 => (waits = <<>> /\ pc # "backoff")
  /\ (BASE_DELAY > 0 /\ pc = "request") =>
       /\ Len(waits) = attempt - 1
       /\ failed = attempt - 1
  /\ pc = "backoff" =>
       /\ attempt < MAX_RETRIES
       /\ failed = attempt
       /\ Len(waits) = attempt
       /\ transient(lastError)
  /\ (BASE_DELAY > 0 /\ pc = "settled") =>
       Len(waits) = IF failed < MAX_RETRIES THEN failed ELSE MAX_RETRIES - 1

C20_Witness ==
  /\ pc = "request"
  /\ attempt = 3
  /\ waits = <<1000, 2000>>

\* ---------------------------------------------------------------- C21
\* C21: with a 1s base delay, a client operation whose attempts all fail
\* with retryable errors incurs backoff waits of 1s, 2s and 4s, in that
\* order, before the failure is surfaced.
C21_AsStated ==
  (BASE_DELAY = 1000 /\ pc = "settled" /\ failed = MAX_RETRIES
     /\ ~settled.ok) =>
    waits = <<1000, 2000, 4000>>

\* ---------------------------------------------------------------- C22
\* C22: when processLeads decides to update, the payload passed to the
\* update call is the incoming lead's own field values, never the values
\* returned by lookup; it stays the same over every attempt of the call.
C22_UpdatePayloadIsIncoming ==
  (operation = "update" /\ pc \in {"request", "backoff", "settled"}) =>
     /\ payload = leads[idx]
     /\ \A k \in 1..Len(events) :
          lookupFound(idx, k) =>
             /\ payload # events[k].res.value
             /\ ~fieldsAgree(payload, events[k].res.value)

C22_Witness ==
  /\ operation = "update"
  /\ pc = "settled"
  /\ settled.ok
  /\ attempt = 2
  /\ payload.company = NewCorp
  /\ \E k \in 1..Len(events) :
        /\ lookupFound(idx, k)
        /\ events[k].res.value.company = OldCorp
        /\ events[k].res.value.name = payload.name
        /\ events[k].res.value.source = payload.source

\* ---------------------------------------------------------------- C23
\* Two strings are the same up to letter case.
sameIgnoringCase(a, b) ==
  /\ Len(a) = Len(b)
  /\ \A k \in 1..Len(a) :
       \/ a[k] = b[k]
       \/ a[k] \in DOMAIN LowerOf /\ LowerOf[a[k]] = b[k]
       \/ b[k] \in DOMAIN LowerOf /\ LowerOf[b[k]] = a[k]

\* The words of a string: its maximal runs of non-whitespace characters.
RECURSIVE words(_, _)
words(s, word) ==
  IF s = <<>> THEN (IF word = <<>> THEN <<>> ELSE <<word>>)
  ELSE IF Head(s) \in {" ", "\t"}
       THEN (IF word = <<>> THEN <<>> ELSE <<word>>) \o words(Tail(s), <<>>)
       ELSE words(Tail(s), Append(word, Head(s)))

\* C23: the identical-or-differs decision compares normalized fields: an
\* incoming lead that differs from the remote record only by e-mail letter
\* case or by leading, trailing or repeated whitespace in company is
\* identical (outcome 'skipped', no update call), while any difference in
\* name or source, or in the words of the company, is a difference (update).
C23_NormalizedComparison ==
  (call.fn = "leadsMatch" /\ call.stage = "returned") =>
     LET a == call.incoming
         b == call.existing
         same == /\ a.name = b.name
                 /\ a.source = b.source
                 /\ sameIgnoringCase(a.email, b.email)
                 /\ words(a.company, <<>>) = words(b.company, <<>>)
     IN /\ Len(outputs) = 1
        /\ outputs[1].match <=> same
        /\ outputs[1].action = IF same THEN "skipped" ELSE "update"
        /\ a.name # b.name => outputs[1].action = "update"
        /\ a.source # b.source => outputs[1].action = "update"

C23_Witness ==
  /\ call.fn = "leadsMatch"
  /\ call.stage = "returned"
  /\ call.incoming.email = EmailAUp
  /\ call.existing.email = EmailA
  /\ call.incoming.company = <<"N", " ", " ", "C", " ">>
  /\ call.existing.company = <<"N", "\t", "C">>
  /\ outputs[1].action = "skipped"

\* ---------------------------------------------------------------- C24
\* A text with nothing but whitespace in it, the empty text included.
blankText(s) == \A k \in 1..Len(s) : s[k] \in {" ", "\t"}

\* No whitespace anywhere, exactly one '@' with a non-empty local part, and
\* a '.' in the domain part with text on both sides.
strictEmail(s) ==
  LET ats == { k \in 1..Len(s) : s[k] = "@" }
  IN /\ \A k \in 1..Len(s) : s[k] \notin {" ", "\t"}
     /\ Cardinality(ats) = 1
     /\ \A p \in ats :
          /\ p > 1
          /\ \E q \in (p + 2)..(Len(s) - 1) : s[q] = "."

AllowedSources ==
  { <<"L","i","n","k","e","d","I","n">>, <<"W","e","b","i","n","a","r">>,
    <<"C","o","n","f","e","r","e","n","c","e">>,
    <<"R","e","f","e","r","r","a","l">>, <<"T","w","i","t","t","e","r">>,
    <<"W","e","b","s","i","t","e">> }

violatedFields(l) ==
  (IF blankText(l.name) THEN {"name"} ELSE {})
    \cup (IF ~strictEmail(l.email) THEN {"email"} ELSE {})
    \cup (IF blankText(l.company) THEN {"company"} ELSE {})
    \cup (IF l.source \notin AllowedSources THEN {"source"} ELSE {})

requiredMessage == "Source is required"

allowListMessages ==
  { "Invalid source",
    "Source must be one of: LinkedIn, Webinar, Website, Conference, Referral, Twitter" }

messagesOfField(f) ==
  CASE f = "name" -> {"Name is required"}
    [] f = "email" -> {"Invalid email format"}
    [] f = "company" -> {"Company is required"}
    [] f = "source" -> {requiredMessage} \cup allowListMessages

validated == call.fn \in {"validateLead", "validateLeadEarlier"}
               /\ call.stage = "returned"

\* C24: validateLead evaluates all four field rules without stopping at the
\* first: the errors list holds exactly one message for each violated field
\* (name, email, company, source) and none for the others, so its length is
\* the number of violated fields, and isValid is true exactly when the list
\* is empty.
C24_AllRulesCollected ==
  validated =>
    LET out == outputs[1]
        bad == violatedFields(call.lead)
    IN /\ Len(out.errors) = Cardinality(bad)
       /\ \A f \in {"name", "email", "company", "source"} :
            Cardinality({ k \in 1..Len(out.errors) :
                            out.errors[k] \in messagesOfField(f) })
              = IF f \in bad THEN 1 ELSE 0
       /\ out.isValid <=> out.errors = <<>>
       /\ out.isValid <=> bad = {}

C24_Witness ==
  /\ validated
  /\ call.fn = "validateLead"
  /\ call.lead = MkLead(<<>>, BadEmail, Blank, <<>>)
  /\ Len(outputs[1].errors) = 4
  /\ ~outputs[1].isValid

\* ---------------------------------------------------------------- C25
\* C25: validateLead accepts an e-mail if and only if it has no whitespace
\* anywhere, exactly one '@' with a non-empty local part, and a '.' in the
\* domain part with non-empty text on both sides; leading or trailing
\* spaces make it invalid.
C25_StrictEmail ==
  validated =>
    LET reported == \E k \in 1..Len(outputs[1].errors) :
                       outputs[1].errors[k] = "Invalid email format"
    IN /\ reported <=> ~strictEmail(call.lead.email)
       /\ (call.lead.email # <<>>
             /\ (Head(call.lead.email) = " "
                   \/ call.lead.email[Len(call.lead.email)] = " "))
            => reported

C25_Witness ==
  /\ validated
  /\ call.lead.email = <<" ", "a", "@", "x", ".", "c">>
  /\ outputs[1].errors = <<"Invalid email format">>

\* ---------------------------------------------------------------- C26
sourceAccepted ==
  \A k \in 1..Len(outputs[1].errors) :
     outputs[1].errors[k] \notin ({requiredMessage} \cup allowListMessages)

sourceMessages ==
  { outputs[1].errors[k] : k \in 1..Len(outputs[1].errors) }
    \cap ({requiredMessage} \cup allowListMessages)

\* C26 as stated: a source is accepted if and only if it is one of the six
\* values; an empty source yields 'Source is required' and any other value
\* yields a source-allow-list violation.
C26_AsStated ==
  validated =>
    /\ sourceAccepted <=> call.lead.source \in AllowedSources
    /\ call.lead.source = <<>> => sourceMessages = {requiredMessage}
    /\ (call.lead.source # <<>> /\ call.lead.source \notin AllowedSources) =>
         (sourceMessages # {} /\ sourceMessages \subseteq allowListMessages)

\* C26: validateLead accepts a source if and only if it exactly equals,
\* letter case included, one of the six values LinkedIn, Webinar, Conference,
\* Referral, Twitter, Website; an empty or whitespace-only source yields
\* 'Source is required' and any other value yields a source-allow-list
\* violation.
C26_SourceAllowList ==
  validated =>
    /\ sourceAccepted <=> call.lead.source \in AllowedSources
    /\ blankText(call.lead.source) => sourceMessages = {requiredMessage}
    /\ (~blankText(call.lead.source)
          /\ call.lead.source \notin AllowedSources) =>
         (Cardinality(sourceMessages) = 1
            /\ sourceMessages \subseteq allowListMessages)

C26_Witness ==
  /\ validated
  /\ call.lead.source = <<" ">>
  /\ outputs[1].errors = <<"Source is required">>

\* ---------------------------------------------------------------- C27
\* The zero-based positions of the input at which e-mail e occurs, letter
\* case set aside.
positionsOf(ls, e) ==
  { k \in 0..(Len(ls) - 1) : sameIgnoringCase(ls[k + 1].email, e) }

lowercased(e) == \A k \in 1..Len(e) : e[k] \notin DOMAIN LowerOf

\* C27: detectDuplicateEmails returns a mapping whose keys are exactly the
\* lower-cased e-mails that occur at two or more positions of the input,
\* each key once and mapped to the full list of those positions in ascending
\* order; e-mails occurring once are absent, and an empty or duplicate-free
\* input yields an empty mapping.
C27_DuplicateMap ==
  call.fn = "detectDuplicateEmails" =>
    \A n \in 1..Len(outputs) :
      LET map == outputs[n]
          ls == call.leads
      IN /\ \A k \in 1..Len(map) :
              /\ lowercased(map[k].key)
              /\ Cardinality(positionsOf(ls, map[k].key)) >= 2
              /\ { map[k].indices[j] : j \in 1..Len(map[k].indices) }
                   = positionsOf(ls, map[k].key)
              /\ \A j \in 1..(Len(map[k].indices) - 1) :
                    map[k].indices[j] < map[k].indices[j + 1]
              /\ \A m \in 1..Len(map) : map[m].key = map[k].key => m = k
         /\ \A p \in 1..Len(ls) :
              Cardinality(positionsOf(ls, ls[p].email)) >= 2 =>
                 \E k \in 1..Len(map) :
                    /\ sameIgnoringCase(map[k].key, ls[p].email)
                    /\ p - 1 \in { map[k].indices[j] :
                                     j \in 1..Len(map[k].indices) }
         /\ (\A p, q \in 1..Len(ls) :
               sameIgnoringCase(ls[p].email, ls[q].email) => p = q)
              => map = <<>>

C27_Witness ==
  /\ call.fn = "detectDuplicateEmails"
  /\ call.stage = "returned"
  /\ Len(call.leads) = 4
  /\ call.leads[1].email = EmailA
  /\ call.leads[3].email = EmailAUp
  /\ outputs[1] = << [key |-> EmailA, indices |-> <<0, 2>>],
                     [key |-> EmailB, indices |-> <<1, 3>>] >>

\* ---------------------------------------------------------------- C28
\* C28: detectDuplicateEmails and leadsMatch are pure: called again on the
\* same input they return the same output, a call starts from nothing a
\* previous call left behind, and no step of either changes its arguments.
C28_Pure ==
  /\ [](/\ \A j, k \in 1..Len(outputs) : outputs[j] = outputs[k]
        /\ (call.fn = "detectDuplicateEmails" /\ call.stage = "forEach") =>
              /\ Len(emailIndices) <= call.index
              /\ \A k \in 1..Len(emailIndices) :
                    \A j \in 1..Len(emailIndices[k].indices) :
                       emailIndices[k].indices[j] < call.index)
  /\ [][/\ call'.fn = call.fn
        /\ call.fn = "detectDuplicateEmails" => call'.leads = call.leads
        /\ call.fn = "leadsMatch" =>
              /\ call'.incoming = call.incoming
              /\ call'.existing = call.existing]_vars

C28_Witness ==
  /\ call.fn = "detectDuplicateEmails"
  /\ call.stage = "returned"
  /\ Len(outputs) = 2
  /\ outputs[2] = << [key |-> EmailA, indices |-> <<0, 1, 3>>] >>

\* ---------------------------------------------------------------- C29
\* A lead is stored, before the request, under an e-mail equal to the
\* request's up to letter case.
storedBefore ==
  \E k \in DOMAIN call.before : sameIgnoringCase(k, call.body.email)

\* The store is the one the request met plus exactly one lead, stored under
\* the request's lower-cased e-mail.
insertedOne ==
  /\ Cardinality(DOMAIN store) = Cardinality(DOMAIN call.before) + 1
  /\ \A k \in DOMAIN call.before : k \in DOMAIN store /\ store[k] = call.before[k]
  /\ \E k \in DOMAIN store \ DOMAIN call.before :
        /\ lowercased(k)
        /\ sameIgnoringCase(k, call.body.email)
        /\ store[k].email = k

\* C29 as stated: create fails with a conflict (409) and leaves the store
\* unchanged if and only if a lead with the same lower-cased e-mail is
\* already stored; otherwise it inserts exactly one new lead under that
\* lower-cased e-mail.
C29_AsStated ==
  call.fn = "create" =>
    /\ (call.reply.status = 409 /\ store = call.before) <=> storedBefore
    /\ ~storedBefore => insertedOne

\* C29: a create request that is not answered with a simulated failure
\* (429, 500) and whose body passes the server's validation fails with a
\* conflict (409) and leaves the store unchanged if and only if a lead with
\* the same lower-cased e-mail is already stored, and otherwise inserts
\* exactly one new lead under that lower-cased e-mail; a request answered
\* with 429, 500 or 400 leaves the store unchanged.
C29_CreateConflict ==
  call.fn = "create" =>
    /\ call.reply.status \in {201, 400, 409, 429, 500}
    /\ call.reply.status \in {400, 429, 500} => store = call.before
    /\ call.reply.status \in {400, 429, 500} <=>
         (call.sim # "none" \/ violatedFields(call.body) # {})
    /\ call.reply.status \notin {400, 429, 500} =>
         /\ (call.reply.status = 409 /\ store = call.before) <=> storedBefore
         /\ call.reply.status = 409 <=> storedBefore
         /\ ~storedBefore =>
              /\ call.reply.status = 201
              /\ insertedOne

C29_Witness ==
  /\ call.fn = "create"
  /\ call.body.email = EmailAUp
  /\ call.reply.status = 409
  /\ EmailA \in DOMAIN call.before
  /\ store = call.before

\* ---------------------------------------------------------------- C30
\* C30: re-running processLeads on the same batch against the remote store
\* left by a previous run that finished with no errors performs no create
\* and no update call: every valid record resolves to 'skipped'.
C30_AsStated ==
  run = 2 =>
    /\ \A k \in 1..Len(events) : events[k].op \notin {"create", "update"}
    /\ \A i \in 1..Len(results) : results[i].action = "skipped"

\* ---------------------------------------------------------------- C31
\* The calls made for record i, as positions of the log.
callPositions(i, ops) ==
  { k \in 1..Len(events) :
      events[k].rec = i /\ events[k].ev = "call" /\ events[k].op \in ops }

\* C31: for every record processLeads makes at most one lookup call and at
\* most one mutation call, never both create and update, and a create or
\* update call comes only right after that record's lookup has returned
\* successfully.
C31_CallDiscipline ==
  \A i \in 1..Len(leads) :
    /\ Cardinality(callPositions(i, {"lookup"})) <= 1
    /\ Cardinality(callPositions(i, {"create", "update"})) <= 1
    /\ \A m \in callPositions(i, {"create", "update"}) :
         /\ m > 2
         /\ events[m - 1].rec = i
         /\ events[m - 1].op = "lookup"
         /\ events[m - 1].ev = "return"
         /\ events[m - 1].res.ok
         /\ events[m - 2] = [rec |-> i, op |-> "lookup", ev |-> "call"]
         /\ events[m].op = "create" <=> events[m - 1].res.value = Null

C31_Witness ==
  /\ pc = "done"
  /\ Len(leads) = 2
  /\ callPositions(1, {"lookup"}) = {1}
  /\ callPositions(1, {"create"}) = {3}
  /\ callPositions(2, {"update"}) = {7}
  /\ \E k \in returnsOf(1, "create") : ~events[k].res.ok
  /\ results[2].action = "updated"

\* ---------------------------------------------------------------- C32
\* How many records of the batch the loop has taken up so far.
takenUp ==
  CASE pc = "loop" -> idx - 1
    [] pc \in {"request", "backoff", "settled"} -> idx
    [] OTHER -> Len(leads)

\* C32: after any prefix of the batch the seen-set is the set of lower-cased
\* e-mails of the records of that prefix that passed validation: a rejected
\* record never adds its e-mail, a record's key is in the set before its
\* lookup is issued, and the set never shrinks.
C32_SeenSet ==
  /\ [](/\ \A k \in seenEmails :
             /\ lowercased(k)
             /\ \E i \in 1..takenUp :
                   /\ violatedFields(leads[i]) = {}
                   /\ sameIgnoringCase(k, leads[i].email)
        /\ \A i \in 1..takenUp :
             violatedFields(leads[i]) = {} =>
                \E k \in seenEmails : sameIgnoringCase(k, leads[i].email)
        /\ \A m \in 1..Len(events) :
             \E k \in seenEmails :
                sameIgnoringCase(k, leads[events[m].rec].email))
  /\ [][seenEmails \subseteq seenEmails']_vars

C32_Witness ==
  /\ pc = "done"
  /\ Len(leads) = 2
  /\ violatedFields(leads[1]) # {}
  /\ leads[2].email = EmailAUp
  /\ seenEmails = {EmailA}

\* ---------------------------------------------------------------- C33
\* C33: when an earlier attempt of a client operation failed with a
\* retryable error and a later attempt (2 or 3) fails with a non-retryable
\* error, withRetry makes no further attempt and throws that non-retryable
\* error itself, not the aggregate 'max retries exhausted' error.
C33_LateNonRetryable ==
  (fnResult # NotSettled /\ ~fnResult.ok /\ ~transient(fnResult.error)
     /\ failed >= 1) =>
    /\ pc = "settled"
    /\ attempt \in {2, 3}
    /\ attempt = failed + 1
    /\ requests = attempt
    /\ settled = [ok |-> FALSE, error |-> fnResult.error]
    /\ settled.error = lastError
    /\ settled.error.message # <<>> =>
         Head(settled.error.message) # "Max retries exhausted after "

C33_Witness ==
  /\ pc = "settled"
  /\ failed = 2
  /\ attempt = 3
  /\ requests = 3
  /\ ~settled.ok
  /\ settled.error.status = 400

\* ---------------------------------------------------------------- C34
\* Requests a record can have caused so far: three for each of its client
\* operations that returned, and those of its operation in progress.
requestsBound(i) ==
  3 * Cardinality({ k \in 1..Len(events) :
                      events[k].rec = i /\ events[k].ev = "return" })
    + (IF i = idx /\ pc \in {"request", "backoff", "settled"}
       THEN requests ELSE 0)

\* C34: processLeads terminates on every batch under every pattern of
\* remote failures: each client operation makes at most 3 requests and at
\* most 2 backoff waits, and each record causes at most 6 requests.
C34_Terminates ==
  /\ [](/\ requests <= MAX_RETRIES
        /\ attempt <= MAX_RETRIES
        /\ Len(waits) <= MAX_RETRIES - 1
        /\ Len(waits) <= requests
        /\ pc # "backoff" => Len(waits) < requests \/ requests = 0
        /\ \A i \in 1..Len(leads) :
             /\ Cardinality(callPositions(i, {"lookup", "create", "update"}))
                  <= 2
             /\ requestsBound(i) <= 2 * MAX_RETRIES)
  /\ <>(pc = "done" /\ Len(results) = Len(leads))

C34_Witness ==
  /\ pc = "done"
  /\ BASE_DELAY = 1000
  /\ Len(leads) = 2
  /\ Len(events) = 6
  /\ events[4].rec = 1 /\ events[4].op = "create" /\ events[4].ev = "return"
  /\ ~events[4].res.ok
  /\ Head(events[4].res.error.message) = "Max retries exhausted after "
  /\ events[6].rec = 2 /\ events[6].op = "lookup"
  /\ ~events[6].res.ok
  /\ Head(events[6].res.error.message) = "Max retries exhausted after "

\* ---------------------------------------------------------------- C35
\* C35: outcomes are returned in input order and carry their lead
\* unchanged: results[i].lead is the i-th input lead, field for field, one
\* outcome per lead taken up, and processLeads never modifies the input.
C35_LeadsUnchanged ==
  /\ [](/\ Len(results) <= Len(leads)
        /\ Len(results) = takenUp
             - (IF pc \in {"request", "backoff", "settled"} THEN 1 ELSE 0)
        /\ \A i \in 1..Len(results) :
             /\ results[i].lead = leads[i]
             /\ \A f \in {"name", "email", "company", "source"} :
                  results[i].lead[f] = leads[i][f]
        /\ pc = "done" => Len(results) = Len(leads))
  /\ [][/\ leads' = leads
        /\ \A i \in 1..Len(results) :
             Len(results') >= i /\ results'[i] = results[i]]_vars

C35_Witness ==
  /\ pc = "done"
  /\ Len(leads) = 2
  /\ leads[1] # leads[2]
  /\ leads[1].email = EmailAUp
  /\ leads[1].company = NewCorpSp
  /\ results[1] = [lead |-> leads[1], action |-> "created"]
  /\ results[2].lead = leads[2]
  /\ results[2].action = "error"

\* ---------------------------------------------------------------- C36
\* E-mails the store holds at the end of the run and did not hold at its
\* start.
newlyStored == DOMAIN store \ DOMAIN call.before

\* E-mails of the records whose outcome is 'created'.
createdEmails ==
  { emailKey(leads[i]) :
      i \in { j \in 1..Len(results) : results[j].action = "created" } }

\* C36 (as stated): at the end of a run against the remote store an
\* e-mail is newly present in the store if and only if some record with
\* that e-mail has outcome 'created', also when a create request times out
\* on the client after the remote applied it and is retried.
C36_AsStated == pc = "done" => newlyStored = createdEmails

\* ---------------------------------------------------------------- C37
\* Indices (from 0, as detectDuplicateEmails numbers them) of the leads
\* processLeads skipped as duplicates within the batch: outcome 'skipped'
\* with no client operation called for the record.
skippedInBatch ==
  { i - 1 : i \in { j \in 1..Len(results) :
                      results[j].action = "skipped" /\ ~anyCall(j) } }

\* Every index but the first of every list detectDuplicateEmails returns.
nonFirstIndices(ls) ==
  LET dups == detectDuplicateEmails(ls)
  IN UNION { { dups[k].indices[n] : n \in 2..Len(dups[k].indices) } :
               k \in 1..Len(dups) }

\* C37: for a batch in which every lead passes validation, the positions
\* processLeads skips as in-batch duplicates are exactly the non-first
\* positions of the lists detectDuplicateEmails returns for that batch.
C37_SameDuplicates ==
  (pc = "done" /\ \A i \in 1..Len(leads) : validateLead(leads[i]).isValid)
    => skippedInBatch = nonFirstIndices(leads)

C37_Witness ==
  /\ pc = "done"
  /\ Len(leads) = 2
  /\ \A i \in 1..Len(leads) : validateLead(leads[i]).isValid
  /\ leads[1].email = EmailA
  /\ leads[2].email = EmailAUp
  /\ results[1].action = "created"
  /\ skippedInBatch = {1}
  /\ detectDuplicateEmails(leads) = <<[key |-> EmailA, indices |-> <<0, 1>>]>>

\* ---------------------------------------------------------------- C38
allReplied ==
  /\ call.fn = "create"
  /\ "inFlight" \in DOMAIN call
  /\ \A n \in 1..MaxInFlight : call.inFlight[n].stage = "replied"

statusOf(n) == call.inFlight[n].reply.status

\* The requests in flight for e-mail e, compared in lower case.
requestsFor(e) ==
  { n \in 1..MaxInFlight : toLowerCase(call.inFlight[n].body.email) = e }

uniqueIds ==
  \A k1, k2 \in DOMAIN store : store[k1].id = store[k2].id => k1 = k2

\* C38 (as stated): when two create requests for the same lowercased
\* e-mail are in flight at once, at most one succeeds (201) and the other
\* receives a conflict (409), and the store ends with exactly one lead for
\* that e-mail with a unique id.
C38_AsStated ==
  allReplied =>
    \A i, j \in 1..MaxInFlight :
      (i # j /\ j \in requestsFor(toLowerCase(call.inFlight[i].body.email)))
        => /\ ~(statusOf(i) = 201 /\ statusOf(j) = 201)
           /\ statusOf(i) = 409 \/ statusOf(j) = 409
           /\ toLowerCase(call.inFlight[i].body.email) \in DOMAIN store
           /\ uniqueIds

\* C38 (amended): of the create requests in flight at once for the same
\* lowercased e-mail, at most one is answered 201; those that pass the
\* simulated failures and validation are answered 409 but for one 201 when
\* the e-mail was not stored before; the store ends with at most one lead
\* for the e-mail, the one the 201 reply carries or the one stored before,
\* and no two stored leads share an id.
C38_CreateAtomic ==
  /\ uniqueIds
  /\ \A k \in DOMAIN store : store[k].email = k
  /\ allReplied =>
       \A e \in { toLowerCase(call.inFlight[n].body.email) :
                    n \in 1..MaxInFlight } :
         LET reached == { n \in requestsFor(e) :
                            statusOf(n) \notin {429, 500, 400} }
             won == { n \in requestsFor(e) : statusOf(n) = 201 }
         IN /\ Cardinality(won) <= 1
            /\ won \subseteq reached
            /\ \A n \in reached \ won : statusOf(n) = 409
            /\ IF e \in DOMAIN call.before
               THEN /\ won = {}
                    /\ e \in DOMAIN store
                    /\ store[e] = call.before[e]
               ELSE /\ reached # {} <=> won # {}
                    /\ e \in DOMAIN store <=> won # {}
                    /\ \A n \in won :
                         store[e] = call.inFlight[n].reply.data.lead

C38_Witness ==
  /\ allReplied
  /\ call.before = <<>>
  /\ call.inFlight[1].body.email = EmailAUp
  /\ call.inFlight[2].body.email = EmailA
  /\ statusOf(1) = 409
  /\ statusOf(2) = 201
  /\ DOMAIN store = {EmailA}
  /\ store[EmailA].id = "1"
  /\ nextId = 2

\* ---------------------------------------------------------------- C39
FailureStatuses == {400, 404, 409, 429, 500}

\* The request handled last was answered with a simulated failure.
failedTransiently == call # NoCall /\ call.reply.status \in {429, 500}

\* C39: a remote request answered with a simulated failure (429 or 500)
\* or with 400, 404 or 409 leaves the store and nextId unchanged; so the
\* same request sent again after a 429 or 500 meets the store the first one
\* met: a create adds one lead at most, an update changes its lead only.
C39_FailedRequestsFrame ==
  /\ []((call # NoCall /\ call.reply.status \in FailureStatuses)
          => store = call.before)
  /\ [][call'.reply.status \in FailureStatuses
          => store' = store /\ nextId' = nextId]_vars
  /\ [][(failedTransiently /\ call'.fn = call.fn /\ call'.body = call.body)
          => /\ call'.before = call.before
             /\ call'.fn = "lookup" => store' = call.before
             /\ call'.fn = "create" =>
                  /\ Cardinality(DOMAIN store')
                       <= Cardinality(DOMAIN call.before) + 1
                  /\ nextId' <= nextId + 1
                  /\ call'.reply.status = 201 =>
                       /\ toLowerCase(call.body.email) \notin DOMAIN call.before
                       /\ DOMAIN store' = DOMAIN call.before
                                            \cup {toLowerCase(call.body.email)}
                       /\ \A k \in DOMAIN call.before :
                            store'[k] = call.before[k]
             /\ call'.fn = "update" =>
                  /\ DOMAIN store' = DOMAIN call.before
                  /\ nextId' = nextId
                  /\ \A k \in DOMAIN store' :
                       k # toLowerCase(call.body.email)
                         => store'[k] = call.before[k]]_vars

C39_Witness ==
  /\ call # NoCall
  /\ call.fn = "create"
  /\ call.reply.status = 429
  /\ validateLeadData(call.body)
  /\ toLowerCase(call.body.email) \notin DOMAIN call.before
  /\ DOMAIN call.before = {EmailA}
  /\ store = call.before
  /\ nextId = 2

====
